---- MODULE Spec2Model ----
(***************************************************************************)
(* Model of eol-scanner: the catalog store and sync engine                 *)
(* (core/db: EOLDatabaseManager) and the scanner's resolution and EOL      *)
(* evaluation (core/scanning: Scanner).                                    *)
(*                                                                         *)
(* Go strings that the code inspects character by character (versions,     *)
(* cycle names, PURLs, product names) are sequences of one-character       *)
(* strings.  Dates and timestamps are tagged tuples, see ParseDate.        *)
(* Time is counted in ticks; a day has TicksPerDay ticks.                  *)
(***************************************************************************)
EXTENDS Integers, Sequences, FiniteSets, TLC

VARIABLES
    categories,     \* table categories: set of rows
    products,       \* table products: set of rows
    cycles,         \* table cycles: set of rows
    identifiers,    \* table identifiers: set of rows
    meta,           \* table sync_metadata: the row with id = 1
    nextCategoryId, \* AUTOINCREMENT counter of categories.id
    nextProductId,  \* AUTOINCREMENT counter of products.id
    now,            \* the wall clock, in ticks
    ret,            \* what the last store operation returned to its caller
    sync,           \* the FullSync call in progress (its locals and position)
    scan,           \* the last component checked by the scanner and its result
    call            \* the last pure-function call: its inputs and its result

storeVars == <<categories, products, cycles, identifiers, meta,
               nextCategoryId, nextProductId>>
vars == <<categories, products, cycles, identifiers, meta,
          nextCategoryId, nextProductId, now, ret, sync, scan, call>>

-----------------------------------------------------------------------------
(* Bounds of the model                                                     *)

TicksPerDay == 2       \* clock resolution: ticks in one day
MaxNow == 3            \* the clock stops advancing at this tick
MaxProductId == 2      \* product ids the callers of the store pass in
MaxSyncs == 1          \* FullSync runs started in one behaviour
MaxFaults == 1         \* storage faults met by the FullSync runs of one behaviour
MaxEolDay == 3         \* EOL dates of evaluated cycles are days 0..MaxEolDay
MaxForward == 2        \* forwardLookupDays ranges over -1..MaxForward
MaxAge == 2            \* DBMaxAge ranges over 0..MaxAge ticks
MaxVersionLen == 4     \* longest version string given to matchesVersion
MaxCycleLen == 3       \* longest cycle name given to matchesVersion
MaxRuns == 2           \* FullSync runs on one database with changing upstream
MaxScans == 2          \* scans of one database path in one behaviour
MaxUpserts == 2        \* UpsertCycle calls of each of two interleaved runs

-----------------------------------------------------------------------------
(* Strings                                                                 *)

EmptyStr == <<>>

\* strings.HasPrefix
HasPrefix(s, prefix) ==
    /\ Len(s) >= Len(prefix)
    /\ SubSeq(s, 1, Len(prefix)) = prefix

\* strings.TrimPrefix
TrimPrefix(s, prefix) ==
    IF HasPrefix(s, prefix) THEN SubSeq(s, Len(prefix) + 1, Len(s)) ELSE s

\* ASCII lower-casing of one character, as SQLite's LOWER() and LIKE do it.
LowerChar(c) ==
    CASE c = "P" -> "p"
      [] c = "Y" -> "y"
      [] c = "N" -> "n"
      [] c = "G" -> "g"
      [] OTHER -> c

\* SQLite LOWER(s)
Lower(s) == [i \in 1..Len(s) |-> LowerChar(s[i])]

\* SQLite's  s LIKE pattern : % matches any run of characters, _ matches one
\* character, other characters match case-insensitively (ASCII).
RECURSIVE Like(_, _)
Like(s, pattern) ==
    IF pattern = <<>> THEN s = <<>>
    ELSE IF Head(pattern) = "%"
         THEN Like(s, Tail(pattern)) \/ (s # <<>> /\ Like(Tail(s), pattern))
         ELSE /\ s # <<>>
              /\ Head(pattern) = "_" \/ LowerChar(Head(s)) = LowerChar(Head(pattern))
              /\ Like(Tail(s), Tail(pattern))

\* Index of the last occurrence of character c in s, 0 when there is none.
RECURSIVE LastIndexOf(_, _)
LastIndexOf(s, c) ==
    IF s = <<>> THEN 0
    ELSE IF s[Len(s)] = c THEN Len(s)
         ELSE LastIndexOf(SubSeq(s, 1, Len(s) - 1), c)

\* Index of the first occurrence of character c in s, 0 when there is none.
RECURSIVE IndexOf(_, _)
IndexOf(s, c) ==
    IF s = <<>> THEN 0
    ELSE IF Head(s) = c THEN 1
         ELSE LET r == IndexOf(Tail(s), c) IN IF r = 0 THEN 0 ELSE r + 1

\* database/sql NullString and NullInt64: a value and whether it is non-NULL.
NullString == [Valid |-> FALSE, String |-> <<>>]
ValidString(s) == [Valid |-> TRUE, String |-> s]
NullInt64 == [Valid |-> FALSE, Int64 |-> 0]
ValidInt64(n) == [Valid |-> TRUE, Int64 |-> n]

\* SQL COALESCE(a, b): a unless a is NULL.
Coalesce(a, b) == IF a.Valid THEN a ELSE b

-----------------------------------------------------------------------------
(* Dates and timestamps.  A date or time text is <<"date", d>> (the text    *)
(* YYYY-MM-DD of day d), <<"rfc3339", t>> (the RFC 3339 text of tick t),    *)
(* <<>> (the empty string) or <<"junk">> (text in no time layout).          *)

DateText(d) == <<"date", d>>
TimestampText(t) == <<"rfc3339", t>>
JunkText == <<"junk">>

\* time.Parse("2006-01-02", s): midnight UTC of the day, or an error.
ParseDate(s) ==
    IF Len(s) = 2 /\ s[1] = "date"
    THEN [ok |-> TRUE, t |-> s[2] * TicksPerDay]
    ELSE [ok |-> FALSE, t |-> 0]

\* time.Parse(time.RFC3339, s): the instant, or an error.
ParseRFC3339(s) ==
    IF Len(s) = 2 /\ s[1] = "rfc3339"
    THEN [ok |-> TRUE, t |-> s[2]]
    ELSE [ok |-> FALSE, t |-> 0]

-----------------------------------------------------------------------------
(* The strings of the model                                                *)

S_python == <<"p","y","t","h","o","n">>
S_Python == <<"P","y","t","h","o","n">>
S_nginx == <<"n","g","i","n","x">>
S_cpython == <<"c","p","y","t","h","o","n">>
S_lang == <<"l","a","n","g">>
S_os == <<"o","s">>
S_Languages == <<"L","a","n","g","s">>
S_2_7 == <<"2",".","7">>
S_3_12 == <<"3",".","1","2">>
S_2_7_18 == <<"2",".","7",".","1","8">>
S_3_12_1 == <<"3",".","1","2",".","1">>
S_purlPython == <<"p","k","g",":","p","y","p","i","/","p","y","t","h","o","n">>
S_purlPython27 == S_purlPython \o <<"@">> \o S_2_7_18
S_purlNginx == <<"p","k","g",":","g","e","n","e","r","i","c","/","n","g","i","n","x">>
S_cpePython == <<"c","p","e",":","p","y","t","h","o","n">>

-----------------------------------------------------------------------------
(* Payloads: ProductData, ReleaseData, Identifier                          *)

\* ReleaseData.Latest is an interface{}: nil, a string, or a JSON object.
LatestNil == [kind |-> "nil", name |-> <<>>, date |-> <<>>, link |-> <<>>]
LatestString(v) == [kind |-> "string", name |-> v, date |-> <<>>, link |-> <<>>]

\* ReleaseData; IsEol and IsEoas are *bool: "nil", "true" or "false".
ReleaseData(name, isEol, eolFrom, isMaintained, latest) ==
    [Name |-> name, Label |-> <<>>, Codename |-> <<>>, ReleaseDate |-> <<>>,
     IsEol |-> isEol, EolFrom |-> eolFrom, IsEoas |-> "nil", EoasFrom |-> <<>>,
     IsLts |-> FALSE, LtsFrom |-> <<>>, Latest |-> latest,
     IsMaintained |-> isMaintained]

\* Identifier
Identifier(type, id) == [Type |-> type, ID |-> id]

\* ProductData; Links is reduced to its "html" entry, <<>> when absent.
ProductData(name, category, label, aliases, idents, releases) ==
    [Name |-> name, Category |-> category, Label |-> label, Link |-> <<>>,
     VersionCommand |-> <<>>, Aliases |-> aliases, Tags |-> <<>>,
     Identifiers |-> idents, Releases |-> releases]

\* encoding/json of a ReleaseData: every exported field, in declaration order.
JsonMarshal(release) ==
    <<release.Name, release.Label, release.Codename, release.ReleaseDate,
      release.IsEol, release.EolFrom, release.IsEoas, release.EoasFrom,
      release.IsLts, release.LtsFrom, release.Latest, release.IsMaintained>>

\* computeHash: the MD5 digest of the JSON text (MD5 taken as collision-free).
computeHash(data) == <<"md5", JsonMarshal(data)>>

-----------------------------------------------------------------------------
(* Catalog store: the write operations of EOLDatabaseManager.               *)
(*                                                                         *)
(* A table is the set of its rows.  The created_at and updated_at columns  *)
(* are written but read nowhere in the program and are not part of a row;  *)
(* ret.execs counts the INSERT/UPDATE statements an operation executed, so *)
(* a write that would touch only updated_at still shows.                   *)
(* Foreign keys are declared in the schema but SQLite enforces them only   *)
(* under PRAGMA foreign_keys=ON, which the program never sets.             *)
(* A fault is the storage failing at one statement of the operation.       *)

NoRet == [op |-> "none"]
NoScan == [op |-> "none"]
NoCall == [op |-> "none"]

\* encoding/json of a []string, as text: null for a nil slice, else ["a","b"].
RECURSIVE JsonQuotedList(_)
JsonQuotedList(list) ==
    IF list = <<>> THEN <<>>
    ELSE <<"\"">> \o Head(list) \o <<"\"">>
         \o (IF Tail(list) = <<>> THEN <<>> ELSE <<",">>)
         \o JsonQuotedList(Tail(list))

JsonStringList(list) ==
    IF list = <<>> THEN <<"n","u","l","l">>
    ELSE <<"[">> \o JsonQuotedList(list) \o <<"]">>

\* SELECT id FROM categories WHERE name = ?
CategoryIdByName(name) ==
    IF \E c \in categories : c.name = name
    THEN ValidInt64((CHOOSE c \in categories : c.name = name).id)
    ELSE NullInt64

\* The INSERT ... ON CONFLICT(name) DO UPDATE of UpsertCategory.
CategoriesAfterUpsert(name, label, total) ==
    IF \E c \in categories : c.name = name
    THEN {IF c.name = name
          THEN [c EXCEPT !.label = Coalesce(ValidString(label), c.label),
                         !.total_products = total]
          ELSE c : c \in categories}
    ELSE categories \cup {[id |-> nextCategoryId, name |-> name,
                           label |-> ValidString(label),
                           total_products |-> total]}

\* The id UpsertCategory reads back after its write.
UpsertCategoryId(name) ==
    IF \E c \in categories : c.name = name
    THEN (CHOOSE c \in categories : c.name = name).id
    ELSE nextCategoryId

CategoryFaults == {"none", "exec", "readback"}

\* UpsertCategory: its effect on the tables.
DoUpsertCategory(name, label, total, fault) ==
    IF fault = "exec"
    THEN UNCHANGED <<categories, nextCategoryId>>
    ELSE /\ categories' = CategoriesAfterUpsert(name, label, total)
         /\ nextCategoryId' = IF \E c \in categories : c.name = name
                              THEN nextCategoryId ELSE nextCategoryId + 1

\* UpsertCategory: what it returns.
UpsertCategoryRet(name, fault) ==
    [op |-> "UpsertCategory", name |-> name,
     id |-> IF fault = "none" THEN UpsertCategoryId(name) ELSE 0,
     err |-> fault # "none",
     execs |-> IF fault = "exec" THEN 0 ELSE 1]

\* The row UpsertProduct inserts for a product.
ProductRow(product, id) ==
    [id |-> id, name |-> product.Name,
     category_id |-> CategoryIdByName(product.Category),
     category_name |-> ValidString(product.Category),
     label |-> ValidString(product.Label),
     link |-> ValidString(product.Link),
     version_command |-> ValidString(product.VersionCommand),
     aliases |-> ValidString(JsonStringList(product.Aliases)),
     tags |-> ValidString(JsonStringList(product.Tags)),
     data_hash |-> NullString]

\* The ON CONFLICT(name) DO UPDATE SET clause of UpsertProduct.
ProductRowMerged(old, excluded) ==
    [old EXCEPT
       !.category_id = Coalesce(excluded.category_id, old.category_id),
       !.category_name = Coalesce(excluded.category_name, old.category_name),
       !.label = Coalesce(excluded.label, old.label),
       !.link = Coalesce(excluded.link, old.link),
       !.version_command = Coalesce(excluded.version_command, old.version_command),
       !.aliases = excluded.aliases,
       !.tags = excluded.tags]

\* Mutant of ProductsAfterUpsert: INSERT OR REPLACE, which deletes the row in
\* conflict and inserts a new one under a fresh id.
ProductsAfterUpsert_Replace(product) ==
    {p \in products : p.name # product.Name}
        \cup {ProductRow(product, nextProductId)}

\* The INSERT ... ON CONFLICT(name) DO UPDATE of UpsertProduct.
ProductsAfterUpsert(product) ==
    IF \E p \in products : p.name = product.Name
    THEN {IF p.name = product.Name
          THEN ProductRowMerged(p, ProductRow(product, p.id))
          ELSE p : p \in products}
    ELSE products \cup {ProductRow(product, nextProductId)}

\* SELECT id FROM products WHERE name = ?  after the write.
UpsertProductId(product) ==
    IF \E p \in products : p.name = product.Name
    THEN (CHOOSE p \in products : p.name = product.Name).id
    ELSE nextProductId

ProductFaults == {"none", "query", "exec", "readback"}

\* UpsertProduct: its effect on the tables.
DoUpsertProduct(product, fault) ==
    IF fault \in {"query", "exec"}
    THEN UNCHANGED <<products, nextProductId>>
    ELSE /\ products' = ProductsAfterUpsert(product)
         /\ nextProductId' = IF \E p \in products : p.name = product.Name
                             THEN nextProductId ELSE nextProductId + 1

\* UpsertProduct: what it returns.
UpsertProductRet(product, fault) ==
    [op |-> "UpsertProduct", name |-> product.Name,
     id |-> IF fault = "none" THEN UpsertProductId(product) ELSE 0,
     err |-> fault # "none",
     execs |-> IF fault \in {"query", "exec"} THEN 0 ELSE 1]

\* *bool to SQL: the eol_boolean / support_boolean value of a non-nil flag.
BoolToInt(flag) == IF flag = "true" THEN 1 ELSE 0

\* Mutant of CycleRow: the hash column is left out of the write.
CycleRow_HashNotStored(productID, release) ==
    [product_id |-> productID,
     cycle |-> release.Name,
     cycle_label |-> ValidString(release.Label),
     codename |-> ValidString(release.Codename),
     release_date |-> ValidString(release.ReleaseDate),
     eol |-> IF release.EolFrom # <<>>
             THEN ValidString(release.EolFrom) ELSE NullString,
     eol_boolean |-> IF release.EolFrom = <<>> /\ release.IsEol # "nil"
                     THEN ValidInt64(IF release.IsEol = "true" THEN 1 ELSE 0)
                     ELSE NullInt64,
     latest_version |-> IF release.Latest.kind # "nil"
                        THEN ValidString(release.Latest.name) ELSE NullString,
     latest_release_date |-> NullString,
     lts |-> IF release.IsLts THEN 1 ELSE 0,
     lts_from |-> ValidString(release.LtsFrom),
     support |-> IF release.EoasFrom # <<>>
                 THEN ValidString(release.EoasFrom) ELSE NullString,
     support_boolean |-> NullInt64,
     is_maintained |-> IF release.IsMaintained THEN 1 ELSE 0,
     link |-> NullString,
     data_hash |-> NullString]

\* Mutant of CycleRow: the flags are stored whenever the release carries
\* them, next to the dates.
CycleRow_FlagsNextToDates(productID, release) ==
    [product_id |-> productID,
     cycle |-> release.Name,
     cycle_label |-> ValidString(release.Label),
     codename |-> ValidString(release.Codename),
     release_date |-> ValidString(release.ReleaseDate),
     eol |-> IF release.EolFrom # <<>>
             THEN ValidString(release.EolFrom) ELSE NullString,
     eol_boolean |-> IF release.IsEol # "nil"
                     THEN ValidInt64(BoolToInt(release.IsEol)) ELSE NullInt64,
     latest_version |-> IF release.Latest.kind # "nil"
                        THEN ValidString(release.Latest.name) ELSE NullString,
     latest_release_date |-> IF release.Latest.kind = "map"
                             THEN ValidString(release.Latest.date) ELSE NullString,
     lts |-> IF release.IsLts THEN 1 ELSE 0,
     lts_from |-> ValidString(release.LtsFrom),
     support |-> IF release.EoasFrom # <<>>
                 THEN ValidString(release.EoasFrom) ELSE NullString,
     support_boolean |-> IF release.IsEoas # "nil"
                         THEN ValidInt64(BoolToInt(release.IsEoas)) ELSE NullInt64,
     is_maintained |-> IF release.IsMaintained THEN 1 ELSE 0,
     link |-> IF release.Latest.kind = "map"
              THEN ValidString(release.Latest.link) ELSE NullString,
     data_hash |-> ValidString(computeHash(release))]

\* The row UpsertCycle writes for a release (the "Parse EOL fields" to
\* "isMaintained" part of the function, and the VALUES of its INSERT).
CycleRow(productID, release) ==
    [product_id |-> productID,
     cycle |-> release.Name,
     cycle_label |-> ValidString(release.Label),
     codename |-> ValidString(release.Codename),
     release_date |-> ValidString(release.ReleaseDate),
     eol |-> IF release.EolFrom # <<>>
             THEN ValidString(release.EolFrom) ELSE NullString,
     eol_boolean |-> IF release.EolFrom = <<>> /\ release.IsEol # "nil"
                     THEN ValidInt64(BoolToInt(release.IsEol)) ELSE NullInt64,
     latest_version |-> IF release.Latest.kind # "nil"
                        THEN ValidString(release.Latest.name) ELSE NullString,
     latest_release_date |-> IF release.Latest.kind = "map"
                             THEN ValidString(release.Latest.date) ELSE NullString,
     lts |-> IF release.IsLts THEN 1 ELSE 0,
     lts_from |-> ValidString(release.LtsFrom),
     support |-> IF release.EoasFrom # <<>>
                 THEN ValidString(release.EoasFrom) ELSE NullString,
     support_boolean |-> IF release.EoasFrom = <<>> /\ release.IsEoas # "nil"
                         THEN ValidInt64(BoolToInt(release.IsEoas)) ELSE NullInt64,
     is_maintained |-> IF release.IsMaintained THEN 1 ELSE 0,
     link |-> IF release.Latest.kind = "map"
              THEN ValidString(release.Latest.link) ELSE NullString,
     data_hash |-> ValidString(computeHash(release))]

\* Mutant of CycleUnchanged: the stored hash is never taken as equal.
CycleUnchanged_NeverEqual(productID, release, fault) == FALSE

\* SELECT data_hash FROM cycles WHERE product_id = ? AND cycle = ?
\* matched the incoming hash: the "exists and unchanged" test of UpsertCycle.
\* A failed query leaves err non-nil, and the test is then false.
CycleUnchanged(productID, release, fault) ==
    /\ fault # "query"
    /\ \E c \in cycles :
         /\ c.product_id = productID
         /\ c.cycle = release.Name
         /\ c.data_hash.Valid
         /\ c.data_hash.String = computeHash(release)

\* Mutant of CyclesAfterUpsert: the other cycles of the product are dropped.
CyclesAfterUpsert_ReplaceProduct(productID, release) ==
    {c \in cycles : c.product_id # productID} \cup {CycleRow(productID, release)}

\* Mutant of CyclesAfterUpsert: a plain INSERT on a table without the
\* UNIQUE(product_id, cycle) constraint.
CyclesAfterUpsert_NoConflictClause(productID, release) ==
    cycles \cup {CycleRow(productID, release)}

\* The INSERT ... ON CONFLICT(product_id, cycle) DO UPDATE of UpsertCycle:
\* every column of the row is replaced.
CyclesAfterUpsert(productID, release) ==
    {c \in cycles : ~(c.product_id = productID /\ c.cycle = release.Name)}
        \cup {CycleRow(productID, release)}

CycleFaults == {"none", "query", "exec"}

\* UpsertCycle: its effect on the tables.
DoUpsertCycle(productID, release, fault) ==
    IF CycleUnchanged(productID, release, fault) \/ fault = "exec"
    THEN UNCHANGED cycles
    ELSE cycles' = CyclesAfterUpsert(productID, release)

\* UpsertCycle: what it returns (changed, err).
UpsertCycleRet(productID, release, fault) ==
    [op |-> "UpsertCycle", productID |-> productID, release |-> release,
     fault |-> fault,
     changed |-> ~CycleUnchanged(productID, release, fault) /\ fault # "exec",
     err |-> ~CycleUnchanged(productID, release, fault) /\ fault = "exec",
     execs |-> IF CycleUnchanged(productID, release, fault) \/ fault = "exec"
               THEN 0 ELSE 1]

\* Bookkeeping of a direct UpsertCycle call: the rows stored under the key
\* before the call, and whether the call before it was the same call,
\* completed without a storage fault.
UpsertCycleCallInfo(productID, release) ==
    [before |-> {c \in cycles : c.product_id = productID /\ c.cycle = release.Name},
     repeated |-> /\ ret.op = "UpsertCycle"
                  /\ ret.productID = productID
                  /\ ret.release = release
                  /\ ret.fault = "none"]

\* Mutant of NonEmptyIdentifiers: an entry is skipped only when its type and
\* its value are both empty.
RECURSIVE NonEmptyIdentifiers_BothEmpty(_)
NonEmptyIdentifiers_BothEmpty(list) ==
    IF list = <<>> THEN <<>>
    ELSE IF Head(list).Type = "" /\ Head(list).ID = <<>>
         THEN NonEmptyIdentifiers_BothEmpty(Tail(list))
         ELSE <<Head(list)>> \o NonEmptyIdentifiers_BothEmpty(Tail(list))

\* The entries of a list UpsertIdentifiers does not skip, in order.
RECURSIVE NonEmptyIdentifiers(_)
NonEmptyIdentifiers(list) ==
    IF list = <<>> THEN <<>>
    ELSE IF Head(list).Type = "" \/ Head(list).ID = <<>>
         THEN NonEmptyIdentifiers(Tail(list))
         ELSE <<Head(list)>> \o NonEmptyIdentifiers(Tail(list))

\* The row UpsertIdentifiers writes for an entry.
IdentifierRow(productID, ident) ==
    [product_id |-> productID, identifier_type |-> ident.Type,
     identifier_value |-> ident.ID]

\* Entries written before the storage fails at the failAt-th executed
\* statement (failAt = 0: no failure).
IdentifiersWritten(list, failAt) ==
    IF failAt = 0 \/ failAt > Len(NonEmptyIdentifiers(list))
    THEN NonEmptyIdentifiers(list)
    ELSE SubSeq(NonEmptyIdentifiers(list), 1, failAt - 1)

\* UpsertIdentifiers: its effect on the tables.  On conflict only updated_at
\* is touched, so the row set gains the rows that were not there.
DoUpsertIdentifiers(productID, list, failAt) ==
    identifiers' = identifiers \cup
        {IdentifierRow(productID, IdentifiersWritten(list, failAt)[i]) :
            i \in 1..Len(IdentifiersWritten(list, failAt))}

\* UpsertIdentifiers: what it returns (count, err).
UpsertIdentifiersRet(productID, list, failAt) ==
    [op |-> "UpsertIdentifiers", productID |-> productID, list |-> list,
     count |-> Len(IdentifiersWritten(list, failAt)),
     err |-> failAt # 0 /\ failAt <= Len(NonEmptyIdentifiers(list)),
     execs |-> Len(IdentifiersWritten(list, failAt))]

-----------------------------------------------------------------------------
(* Catalog store: the read operations                                      *)

\* Rank of a release_date text under SQLite's ORDER BY (NULL sorts lowest,
\* then the empty text, then dates in calendar order).
ReleaseDateRank(column) ==
    IF ~column.Valid THEN -1
    ELSE IF Len(column.String) = 2 /\ column.String[1] = "date"
         THEN column.String[2] + 1
         ELSE 0

\* The rows GetProductCycles selects: cycles joined to the product by name.
ProductCycleRows(productName) ==
    {c \in cycles : \E p \in products : p.id = c.product_id /\ p.name = productName}

\* GetProductCycles: the row lists it may return, ORDER BY release_date DESC;
\* rows with equal release dates come in an order SQLite does not fix.
GetProductCycles(productName) ==
    LET rows == ProductCycleRows(productName)
        n == Cardinality(rows)
    IN {list \in [1..n -> rows] :
          /\ \A i, j \in 1..n : i # j => list[i] # list[j]
          /\ \A i, j \in 1..n : i < j =>
                ReleaseDateRank(list[i].release_date)
                    >= ReleaseDateRank(list[j].release_date)}

NilProduct == [id |-> 0, name |-> <<>>]
LookupNotFound == [product |-> NilProduct, cycles |-> <<>>, err |-> FALSE]
LookupError == [product |-> NilProduct, cycles |-> <<>>, err |-> TRUE]

\* Mutant of LookupResults: sql.ErrNoRows is returned as an error.
LookupResults_NoRowsIsError(rows) ==
    IF rows = {} THEN {LookupError}
    ELSE UNION {{[product |-> p, cycles |-> list, err |-> FALSE] :
                    list \in GetProductCycles(p.name)} : p \in rows}

\* What a lookup returns once its query selected the product rows `rows`:
\* QueryRow takes the first row, and the queries have no ORDER BY, so any
\* selected row may be the first; no row is sql.ErrNoRows, a nil product.
LookupResults(rows) ==
    IF rows = {} THEN {LookupNotFound}
    ELSE UNION {{[product |-> p, cycles |-> list, err |-> FALSE] :
                    list \in GetProductCycles(p.name)} : p \in rows}

\* Products joined to an identifier of the given type that satisfies Match.
ProductsByIdentifier(type, Match(_)) ==
    {p \in products :
        \E i \in identifiers : /\ i.product_id = p.id
                               /\ i.identifier_type = type
                               /\ Match(i.identifier_value)}

\* The "partial match" pattern of LookupByPURL: the PURL up to its last '@'
\* (the whole PURL when it has none), followed by the wildcard %.
PurlBasePattern(purl) ==
    (IF LastIndexOf(purl, "@") = 0 THEN purl
     ELSE SubSeq(purl, 1, LastIndexOf(purl, "@") - 1)) \o <<"%">>

\* The product rows LookupByPURL's queries select: the exact match, and only
\* when that finds no row the LIKE match on the version-stripped PURL.
LookupByPURLRows(purl) ==
    LET exact == ProductsByIdentifier("purl", LAMBDA v : v = purl)
    IN IF exact # {} THEN exact
       ELSE ProductsByIdentifier("purl",
                LAMBDA v : Like(v, PurlBasePattern(purl)))

\* LookupByPURL: the results it may return.
LookupByPURL(purl, fault) ==
    IF fault # "none" THEN {LookupError}
    ELSE LookupResults(LookupByPURLRows(purl))

NameSuffixes ==
    << <<"-","d","e","v">>, <<"-","d","e","v","e","l">>, <<"-","l","i","b","s">>,
       <<"-","c","o","m","m","o","n">>, <<"-","b","i","n">>,
       <<"-","t","o","o","l","s">>, <<"-","u","t","i","l","s">> >>

\* normalizePackageName: strip the first suffix of the list the name ends in.
RECURSIVE StripFirstSuffix(_, _)
StripFirstSuffix(name, suffixes) ==
    IF suffixes = <<>> THEN name
    ELSE IF /\ Len(name) > Len(Head(suffixes))
            /\ SubSeq(name, Len(name) - Len(Head(suffixes)) + 1, Len(name))
                  = Head(suffixes)
         THEN SubSeq(name, 1, Len(name) - Len(Head(suffixes)))
         ELSE StripFirstSuffix(name, Tail(suffixes))

normalizePackageName(name) == StripFirstSuffix(name, NameSuffixes)

\* The product rows LookupByName's queries select: by product name, else by
\* alias, else by repology identifier.
LookupByNameRows(name) ==
    LET normalizedName == normalizePackageName(name)
        byName == {p \in products : Lower(p.name) = Lower(normalizedName)}
        byAlias == {p \in products :
                      /\ p.aliases.Valid
                      /\ Like(p.aliases.String,
                              <<"%", "\"">> \o normalizedName \o <<"\"", "%">>)}
        byRepology == ProductsByIdentifier("repology",
                          LAMBDA v : Lower(v) = Lower(normalizedName))
    IN IF byName # {} THEN byName
       ELSE IF byAlias # {} THEN byAlias
       ELSE byRepology

\* LookupByName: the results it may return.
LookupByName(name, fault) ==
    IF fault # "none" THEN {LookupError}
    ELSE LookupResults(LookupByNameRows(name))

\* The product rows LookupByCPE's queries select: the case-insensitive exact
\* match, and only when that finds no row the LIKE match on cpeString + "%".
LookupByCPERows(cpeString) ==
    LET exact == ProductsByIdentifier("cpe",
                     LAMBDA v : Lower(v) = Lower(cpeString))
    IN IF exact # {} THEN exact
       ELSE ProductsByIdentifier("cpe",
                LAMBDA v : Like(Lower(v), Lower(cpeString \o <<"%">>)))

\* LookupByCPE: the results it may return.
LookupByCPE(cpeString, fault) ==
    IF fault # "none" THEN {LookupError}
    ELSE LookupResults(LookupByCPERows(cpeString))

\* The two patterns of LookupByPURLPrefix: pkg:<type>/<name>% and
\* pkg:<type>/%/<name>%.
PurlPrefixPattern(purlType, packageName) ==
    <<"p","k","g",":">> \o purlType \o <<"/">> \o packageName \o <<"%">>
PurlScopePattern(purlType, packageName) ==
    <<"p","k","g",":">> \o purlType \o <<"/","%","/">> \o packageName \o <<"%">>

\* The product rows LookupByPURLPrefix's query selects.
LookupByPURLPrefixRows(purlType, packageName) ==
    ProductsByIdentifier("purl",
        LAMBDA v : \/ Like(Lower(v), Lower(PurlPrefixPattern(purlType, packageName)))
                   \/ Like(Lower(v), Lower(PurlScopePattern(purlType, packageName))))

\* LookupByPURLPrefix: the results it may return.
LookupByPURLPrefix(purlType, packageName, fault) ==
    IF fault # "none" THEN {LookupError}
    ELSE LookupResults(LookupByPURLPrefixRows(purlType, packageName))

\* GetProductCycles called on its own: (cycles, err).
GetProductCyclesResults(productName, fault) ==
    IF fault # "none" THEN {[cycles |-> <<>>, err |-> TRUE]}
    ELSE {[cycles |-> list, err |-> FALSE] : list \in GetProductCycles(productName)}

-----------------------------------------------------------------------------
(* Scanner: version matching and EOL evaluation                            *)

StatusActive == "active"
StatusEOL == "eol"
StatusEOLSoon == "eol_soon"
StatusUnknown == "unknown"

\* Mutant of matchesVersion: a plain prefix test, with no separator.
matchesVersion_PlainPrefix(version, cycle) ==
    \/ version = cycle
    \/ HasPrefix(version, cycle)

\* matchesVersion: the version is the cycle, or starts with the cycle
\* followed by "." or by "-".
matchesVersion(version, cycle) ==
    \/ version = cycle
    \/ HasPrefix(version, cycle \o <<".">>)
    \/ HasPrefix(version, cycle \o <<"-">>)

\* strings.Split(s, sep) for a one-character separator.
RECURSIVE Split(_, _)
Split(s, sep) ==
    IF IndexOf(s, sep) = 0 THEN <<s>>
    ELSE <<SubSeq(s, 1, IndexOf(s, sep) - 1)>>
         \o Split(SubSeq(s, IndexOf(s, sep) + 1, Len(s)), sep)

MajorSeparators == <<".", "-", "_">>

\* The loop of extractMajorVersion: for each separator in turn, split and
\* return the first part when the split has any part.
RECURSIVE FirstPartBySeparators(_, _)
FirstPartBySeparators(v, seps) ==
    IF seps = <<>> THEN v
    ELSE IF Len(Split(v, Head(seps))) > 0
         THEN Split(v, Head(seps))[1]
         ELSE FirstPartBySeparators(v, Tail(seps))

\* Mutant of extractMajorVersion: the first part ends at the first ".", "-"
\* or "_", whichever comes first.
extractMajorVersion_AnySeparator(version) ==
    LET v == TrimPrefix(version, <<"v">>)
        cuts == {k \in 1..Len(v) : v[k] \in {".", "-", "_"}}
    IN IF cuts = {} THEN v
       ELSE SubSeq(v, 1, (CHOOSE k \in cuts : \A m \in cuts : k <= m) - 1)

\* extractMajorVersion
extractMajorVersion(version) ==
    FirstPartBySeparators(TrimPrefix(version, <<"v">>), MajorSeparators)

\* matchesMajorVersion
matchesMajorVersion(version, cycle) ==
    /\ extractMajorVersion(version) # <<>>
    /\ extractMajorVersion(version) = extractMajorVersion(cycle)

\* Index of the first element of a list that satisfies Test, 0 if none.
RECURSIVE FirstIndex(_, _, _)
FirstIndex(list, Test(_), from) ==
    IF from > Len(list) THEN 0
    ELSE IF Test(list[from]) THEN from
         ELSE FirstIndex(list, Test, from + 1)

\* Mutant of MatchedCycleIndex: one pass, the first cycle matching by either
\* rule.
MatchedCycleIndex_SinglePass(cycleList, version) ==
    FirstIndex(cycleList,
               LAMBDA c : \/ matchesVersion(version, c.cycle)
                          \/ matchesMajorVersion(version, c.cycle), 1)

\* The cycle selection of evaluateEOLStatus: index of the first cycle that
\* matchesVersion, else of the first that matchesMajorVersion, else 0.
MatchedCycleIndex(cycleList, version) ==
    IF FirstIndex(cycleList, LAMBDA c : matchesVersion(version, c.cycle), 1) # 0
    THEN FirstIndex(cycleList, LAMBDA c : matchesVersion(version, c.cycle), 1)
    ELSE FirstIndex(cycleList, LAMBDA c : matchesMajorVersion(version, c.cycle), 1)

NoDays == [Valid |-> FALSE, Days |-> 0]
SomeDays(n) == [Valid |-> TRUE, Days |-> n]

\* ComponentResult as checkComponent initialises it.
ComponentResult(p) ==
    [Name |-> p.Name, Version |-> p.Version, PURL |-> p.PURL,
     Status |-> StatusUnknown, EOLDate |-> <<>>, DaysUntilEOL |-> NoDays,
     MatchedProduct |-> <<>>, MatchedCycle |-> <<>>,
     LatestVersion |-> <<>>, IsLTS |-> FALSE]

\* Mutant of IsBooleanEOL: the flag counts only when the cycle has no date.
IsBooleanEOL_OnlyWithoutDate(matchedCycle) ==
    /\ matchedCycle.eol_boolean.Valid
    /\ matchedCycle.eol_boolean.Int64 = 1
    /\ ~matchedCycle.eol.Valid

\* matchedCycle.EOLBoolean.Valid && matchedCycle.EOLBoolean.Int64 == 1
IsBooleanEOL(matchedCycle) ==
    /\ matchedCycle.eol_boolean.Valid
    /\ matchedCycle.eol_boolean.Int64 = 1

\* Mutant of BeforeForwardDate: the window includes its last instant.
BeforeForwardDate_Inclusive(eolDate, forwardDate) == eolDate <= forwardDate

\* eolDate.Before(forwardDate)
BeforeForwardDate(eolDate, forwardDate) == eolDate < forwardDate

\* The classification part of evaluateEOLStatus ("Check EOL status" on),
\* for the matched cycle; today is time.Now() and forwardDate is
\* today.AddDate(0, 0, ForwardLookupDays), both instants in ticks.
ClassifyCycle(result, matchedCycle, today, forwardDate) ==
    IF IsBooleanEOL(matchedCycle)
    THEN [result EXCEPT !.Status = StatusEOL]
    ELSE IF /\ matchedCycle.eol.Valid
            /\ matchedCycle.eol.String # <<>>
            /\ ParseDate(matchedCycle.eol.String).ok
    THEN LET eolDate == ParseDate(matchedCycle.eol.String).t
             dated == [result EXCEPT !.EOLDate = matchedCycle.eol.String]
             days == (eolDate - today) \div TicksPerDay
         IN IF eolDate <= today
            THEN [dated EXCEPT !.Status = StatusEOL]
            ELSE IF BeforeForwardDate(eolDate, forwardDate)
                 THEN [dated EXCEPT !.Status = StatusEOLSoon,
                                    !.DaysUntilEOL = SomeDays(days)]
                 ELSE [dated EXCEPT !.Status = StatusActive,
                                    !.DaysUntilEOL = SomeDays(days)]
    ELSE IF matchedCycle.is_maintained = 1
         THEN [result EXCEPT !.Status = StatusActive]
         ELSE result

\* evaluateEOLStatus
evaluateEOLStatus(result, cycleList, version, today, forwardLookupDays) ==
    IF Len(cycleList) = 0 \/ MatchedCycleIndex(cycleList, version) = 0
    THEN result
    ELSE LET matchedCycle == cycleList[MatchedCycleIndex(cycleList, version)]
             matched == [result EXCEPT
                 !.MatchedCycle = matchedCycle.cycle,
                 !.IsLTS = (matchedCycle.lts = 1),
                 !.LatestVersion = IF matchedCycle.latest_version.Valid
                                   THEN matchedCycle.latest_version.String
                                   ELSE <<>>]
         IN ClassifyCycle(matched, matchedCycle, today,
                          today + forwardLookupDays * TicksPerDay)

\* Mutant of checkComponent: the name lookup is tried before the PURL lookup.
checkComponent_NameFirst(p, fault, today, forwardLookupDays) ==
    {IF ~found.err /\ found.product # NilProduct
     THEN evaluateEOLStatus(
              [ComponentResult(p) EXCEPT !.MatchedProduct = found.product.name],
              found.cycles, p.Version, today, forwardLookupDays)
     ELSE ComponentResult(p) :
        found \in IF LookupByNameRows(p.Name) # {}
                  THEN LookupByName(p.Name, fault)
                  ELSE LookupByPURL(p.PURL, fault)}

\* checkComponent: the results it may produce for package p; the lookup is by
\* PURL only, and a lookup error leaves the result as initialised.
checkComponent(p, fault, today, forwardLookupDays) ==
    IF p.PURL = <<>> THEN {ComponentResult(p)}
    ELSE {IF ~found.err /\ found.product # NilProduct
          THEN evaluateEOLStatus(
                   [ComponentResult(p) EXCEPT !.MatchedProduct = found.product.name],
                   found.cycles, p.Version, today, forwardLookupDays)
          ELSE ComponentResult(p) : found \in LookupByPURL(p.PURL, fault)}

-----------------------------------------------------------------------------
(* Scanner: staleness of the database                                      *)

\* The Stats fields GetStats reads from sync_metadata; GetStats returns
\* (nil, err) when that query fails.
Stats(lastFullSync) == [LastFullSync |-> lastFullSync]

\* Mutant of checkDBNeedsUpdate: a database of exactly the maximum age is stale.
checkDBNeedsUpdate_StaleAtMaxAge(stats, statsErr, today, dbMaxAge) ==
    IF statsErr THEN [outcome |-> "panic", needsUpdate |-> FALSE]
    ELSE IF ~ParseRFC3339(stats.LastFullSync.String).ok
         THEN [outcome |-> "return", needsUpdate |-> TRUE]
         ELSE [outcome |-> "return",
               needsUpdate |->
                   today - ParseRFC3339(stats.LastFullSync.String).t >= dbMaxAge]

\* checkDBNeedsUpdate: the error of GetStats is overwritten unread and the
\* stats pointer is dereferenced, which panics when GetStats returned nil.
checkDBNeedsUpdate(stats, statsErr, today, dbMaxAge) ==
    IF statsErr THEN [outcome |-> "panic", needsUpdate |-> FALSE]
    ELSE IF ~ParseRFC3339(stats.LastFullSync.String).ok
         THEN [outcome |-> "return", needsUpdate |-> TRUE]
         ELSE [outcome |-> "return",
               needsUpdate |->
                   today - ParseRFC3339(stats.LastFullSync.String).t > dbMaxAge]

\* Mutant of ensureDatabase: the age of an existing database is checked
\* whether or not auto-update is enabled.
ensureDatabase_AlwaysChecksAge(dbExists, openFails, autoUpdateDB, stats, statsErr, today, dbMaxAge) ==
    IF openFails THEN [outcome |-> "error", fullSync |-> FALSE]
    ELSE IF ~dbExists THEN [outcome |-> "return", fullSync |-> TRUE]
    ELSE LET needs == checkDBNeedsUpdate(stats, statsErr, today, dbMaxAge)
         IN IF needs.outcome = "panic"
            THEN [outcome |-> "panic", fullSync |-> FALSE]
            ELSE [outcome |-> "return", fullSync |-> needs.needsUpdate]

\* ensureDatabase: how it ends, and whether it calls syncDatabase, which
\* calls FullSync.  dbExists is what os.Stat found before the database was
\* opened (and created); openFails is the failure of DefaultDBPath or of
\* NewEOLDatabaseManager.
ensureDatabase(dbExists, openFails, autoUpdateDB, stats, statsErr, today, dbMaxAge) ==
    IF openFails THEN [outcome |-> "error", fullSync |-> FALSE]
    ELSE IF ~dbExists THEN [outcome |-> "return", fullSync |-> TRUE]
    ELSE IF autoUpdateDB
    THEN LET needs == checkDBNeedsUpdate(stats, statsErr, today, dbMaxAge)
         IN IF needs.outcome = "panic"
            THEN [outcome |-> "panic", fullSync |-> FALSE]
            ELSE [outcome |-> "return", fullSync |-> needs.needsUpdate]
    ELSE [outcome |-> "return", fullSync |-> FALSE]

-----------------------------------------------------------------------------
(* Initial state of the store: the tables initDatabase creates, with the   *)
(* one sync_metadata row it inserts.                                       *)

InitMeta ==
    [last_full_sync |-> NullString, last_update_check |-> NullString,
     categories_synced |-> NullString,
     products_count |-> 0, cycles_count |-> 0, identifiers_count |-> 0]

\* SyncResult as FullSync initialises it.
EmptySyncResult ==
    [ProductsProcessed |-> 0, CyclesProcessed |-> 0,
     IdentifiersProcessed |-> 0, Errors |-> 0]

\* The tables, as a value.
Snapshot ==
    [categories |-> categories, products |-> products, cycles |-> cycles,
     identifiers |-> identifiers, meta |-> meta]

\* No FullSync call yet.  pc is the position of the call; categories,
\* cancelled (the ctx), filtered, counts, i, j, productID and result are its
\* arguments and locals; returned and err are what it returned.  The other
\* fields are bookkeeping: runs counts the calls, faults the storage faults
\* the calls met, cancelAt is the position
\* at which the ctx was cancelled, attempted and failed are the items whose
\* upsert was called and failed, execs counts the executed INSERT/UPDATE
\* statements, before is the tables at the call.
IdleSync ==
    [pc |-> "idle", runs |-> 0, faults |-> 0, categories |-> <<>>, cancelled |-> FALSE,
     cancelAt |-> "never", filtered |-> <<>>, counts |-> {}, i |-> 0, j |-> 0,
     productID |-> 0, result |-> EmptySyncResult, returned |-> FALSE,
     err |-> "none", attempted |-> {}, failed |-> {}, execs |-> 0,
     afterCancel |-> {}, upstream |-> "none", prev |-> [ran |-> FALSE],
     startTime |-> 0,
     before |-> [categories |-> {}, products |-> {}, cycles |-> {},
                 identifiers |-> {}, meta |-> InitMeta]]

InitStore ==
    /\ categories = {}
    /\ products = {}
    /\ cycles = {}
    /\ identifiers = {}
    /\ meta = InitMeta
    /\ nextCategoryId = 1
    /\ nextProductId = 1

Init ==
    /\ InitStore
    /\ now = 0
    /\ ret = NoRet
    /\ sync = IdleSync
    /\ scan = NoScan
    /\ call = NoCall

-----------------------------------------------------------------------------
(* Pure functions of the scanner, applied to inputs drawn from small sets   *)

\* All strings over an alphabet of length at most n.
RECURSIVE StringsUpTo(_, _)
StringsUpTo(alphabet, n) ==
    IF n = 0 THEN {<<>>}
    ELSE StringsUpTo(alphabet, n - 1) \cup
         {Append(s, c) : s \in {t \in StringsUpTo(alphabet, n - 1) : Len(t) = n - 1},
                         c \in alphabet}

VersionAlphabet == {"3", "9", ".", "-"}

S_3 == <<"3">>
S_3_9 == <<"3", ".", "9">>
S_3_9_1 == <<"3", ".", "9", ".", "1">>
S_3_91 == <<"3", ".", "9", "1">>
S_4_0_0 == <<"4", ".", "0", ".", "0">>

EvalCycleNames == {S_3_9, S_3}
EvalVersions == {S_3_9_1, S_3_91, S_4_0_0}

\* The EOL date columns of the evaluated cycles: NULL, empty, a date, junk,
\* and an RFC 3339 timestamp.
EvalEolColumns ==
    {NullString, ValidString(<<>>), ValidString(JunkText),
     ValidString(TimestampText(0))}
        \cup {ValidString(DateText(d)) : d \in 0..MaxEolDay}

\* A db.Cycle as the scanner's callers and tests build it.
Cycle(name, eol, eolBoolean, isMaintained) ==
    [product_id |-> 1, cycle |-> name, cycle_label |-> NullString,
     codename |-> NullString, release_date |-> NullString,
     eol |-> eol, eol_boolean |-> eolBoolean,
     latest_version |-> NullString, latest_release_date |-> NullString,
     lts |-> 0, lts_from |-> NullString, support |-> NullString,
     support_boolean |-> NullInt64, is_maintained |-> isMaintained,
     link |-> NullString, data_hash |-> NullString]

EvalCycles ==
    {Cycle(n, e, b, m) : n \in EvalCycleNames, e \in EvalEolColumns,
                         b \in {NullInt64, ValidInt64(0), ValidInt64(1)},
                         m \in {0, 1}}

\* Cycles with no EOL information, to put before or after another cycle.
PlainCycles == {Cycle(n, NullString, NullInt64, 1) : n \in EvalCycleNames}

EvalCycleLists ==
    {<<>>} \cup {<<c>> : c \in EvalCycles}
           \cup {<<c, d>> : c \in EvalCycles, d \in PlainCycles}
           \cup {<<d, c>> : c \in EvalCycles, d \in PlainCycles}

EvalComponent(version) == [Name |-> S_python, Version |-> version, PURL |-> <<>>]

CallMatchesVersion ==
    /\ call = NoCall
    /\ \E version \in StringsUpTo(VersionAlphabet, MaxVersionLen)
                          \cup EvalVersions,
          cycle \in StringsUpTo(VersionAlphabet, MaxCycleLen) :
         call' = [op |-> "matchesVersion", version |-> version, cycle |-> cycle,
                  result |-> matchesVersion(version, cycle)]
    /\ UNCHANGED <<storeVars, now, ret, sync, scan>>

CallEvaluateEOLStatus ==
    /\ call = NoCall
    /\ \E cycleList \in EvalCycleLists, version \in EvalVersions,
          today \in 0..MaxNow, forwardLookupDays \in -1..MaxForward :
         call' = [op |-> "evaluateEOLStatus", cycles |-> cycleList,
                  version |-> version, today |-> today,
                  forwardLookupDays |-> forwardLookupDays,
                  result |-> evaluateEOLStatus(
                      ComponentResult(EvalComponent(version)), cycleList,
                      version, today, forwardLookupDays)]
    /\ UNCHANGED <<storeVars, now, ret, sync, scan>>

StatsInputs ==
    {NullString, ValidString(JunkText)}
        \cup {ValidString(TimestampText(t)) : t \in 0..MaxNow}

CallCheckDBNeedsUpdate ==
    /\ call = NoCall
    /\ \E lastFullSync \in StatsInputs, statsErr \in BOOLEAN,
          today \in 0..MaxNow, dbMaxAge \in 0..MaxAge :
         call' = [op |-> "checkDBNeedsUpdate", lastFullSync |-> lastFullSync,
                  statsErr |-> statsErr, today |-> today, dbMaxAge |-> dbMaxAge,
                  result |-> checkDBNeedsUpdate(Stats(lastFullSync), statsErr,
                                                today, dbMaxAge)]
    /\ UNCHANGED <<storeVars, now, ret, sync, scan>>

\* A scan begins: ScanFromTar, ScanFromRegistry and ScanFromDocker all call
\* ensureDatabase first, and nothing else in a scan calls FullSync.
CallEnsureDatabase ==
    /\ call = NoCall
    /\ \E dbExists \in BOOLEAN, openFails \in BOOLEAN, autoUpdateDB \in BOOLEAN,
          lastFullSync \in StatsInputs, statsErr \in BOOLEAN,
          today \in 0..MaxNow, dbMaxAge \in 0..MaxAge :
         call' = [op |-> "ensureDatabase", dbExists |-> dbExists,
                  openFails |-> openFails, autoUpdateDB |-> autoUpdateDB,
                  lastFullSync |-> lastFullSync, statsErr |-> statsErr,
                  today |-> today, dbMaxAge |-> dbMaxAge,
                  result |-> ensureDatabase(dbExists, openFails, autoUpdateDB,
                                            Stats(lastFullSync), statsErr,
                                            today, dbMaxAge)]
    /\ UNCHANGED <<storeVars, now, ret, sync, scan>>

MajorAlphabet == {"v", "3", ".", "-", "_"}

S_3_alpine == <<"3", "-", "a", "l", "p", "i", "n", "e">>
S_v2_1_0 == <<"v", "2", ".", "1", ".", "0">>
S_2_0 == <<"2", ".", "0">>
S_3_0_1u == <<"3", "_", "0", "_", "1">>
S_vv3 == <<"v", "v", "3">>

MajorVersions ==
    StringsUpTo(MajorAlphabet, MaxCycleLen)
        \cup {S_3_alpine, S_4_0_0, S_v2_1_0, S_3_0_1u, S_3_9_1, S_vv3}
MajorCycles ==
    StringsUpTo(MajorAlphabet, MaxCycleLen - 1) \cup {S_3, S_3_9, S_2_0}

CallMatchesMajorVersion ==
    /\ call = NoCall
    /\ \E version \in MajorVersions, cycle \in MajorCycles :
         call' = [op |-> "matchesMajorVersion", version |-> version,
                  cycle |-> cycle,
                  result |-> matchesMajorVersion(version, cycle)]
    /\ UNCHANGED <<storeVars, now, ret, sync, scan>>

NextPure ==
    \/ CallMatchesVersion
    \/ CallMatchesMajorVersion
    \/ CallEvaluateEOLStatus
    \/ CallCheckDBNeedsUpdate
    \/ CallEnsureDatabase

SpecPure == Init /\ [][NextPure]_vars

-----------------------------------------------------------------------------
(* Properties of the pure functions (SpecPure)                             *)

\* The cycle evaluateEOLStatus selected in the recorded call.
EvalMatched == call.cycles[MatchedCycleIndex(call.cycles, call.version)]

EvalHasMatch ==
    /\ call.op = "evaluateEOLStatus"
    /\ MatchedCycleIndex(call.cycles, call.version) # 0

\* The recorded call evaluated a cycle that is not boolean-EOL and whose EOL
\* date is a parsable YYYY-MM-DD date.
EvalDated ==
    /\ EvalHasMatch
    /\ EvalMatched.eol_boolean # ValidInt64(1)
    /\ EvalMatched.eol.Valid
    /\ Len(EvalMatched.eol.String) = 2
    /\ EvalMatched.eol.String[1] = "date"

\* Midnight UTC of the matched cycle's EOL date, in ticks.
EvalEolInstant == EvalMatched.eol.String[2] * TicksPerDay

\* today + forwardLookupDays, in ticks.
EvalForwardInstant == call.today + call.forwardLookupDays * TicksPerDay

\* C7: needsRefresh (checkDBNeedsUpdate) is true when no full sync was ever
\* recorded, true when the recorded timestamp cannot be parsed, true when
\* now - lastFullSync > maxAge, and false otherwise; at age = maxAge it is
\* false.  Stated for the calls in which GetStats returned the stats.
C7_NeedsRefresh ==
    (call.op = "checkDBNeedsUpdate" /\ ~call.statsErr) =>
        LET recorded == call.lastFullSync.Valid
            parsable == /\ recorded
                        /\ Len(call.lastFullSync.String) = 2
                        /\ call.lastFullSync.String[1] = "rfc3339"
            age == call.today - call.lastFullSync.String[2]
        IN /\ call.result.outcome = "return"
           /\ call.result.needsUpdate <=>
                 (~recorded \/ ~parsable \/ age > call.dbMaxAge)
           /\ (parsable /\ age = call.dbMaxAge) => ~call.result.needsUpdate

C7_Witness ==
    /\ call.op = "checkDBNeedsUpdate"
    /\ ~call.statsErr
    /\ call.lastFullSync = ValidString(TimestampText(1))
    /\ call.today = 3
    /\ call.dbMaxAge = 2
    /\ ~call.result.needsUpdate

\* C8: a matched cycle with eolBoolean = true gives status EOL, whatever its
\* EOL date, its isMaintained flag and forwardLookupDays.
C8_BooleanEolIsEol ==
    (EvalHasMatch /\ EvalMatched.eol_boolean = ValidInt64(1)) =>
        call.result.Status = StatusEOL

C8_Witness ==
    /\ EvalHasMatch
    /\ EvalMatched.eol_boolean = ValidInt64(1)
    /\ EvalMatched.eol = ValidString(DateText(MaxEolDay))
    /\ EvalMatched.is_maintained = 1
    /\ call.today = 0
    /\ call.result.Status = StatusEOL

C10_MatchesVersion ==
    call.op = "matchesVersion" =>
        LET v == call.version
            c == call.cycle
        IN /\ call.result <=>
                 /\ Len(v) >= Len(c)
                 /\ \A i \in 1..Len(c) : v[i] = c[i]
                 /\ Len(v) = Len(c) \/ v[Len(c) + 1] \in {".", "-"}
           /\ (v = S_3_91 /\ c = S_3_9) => ~call.result
           /\ (v = <<>> /\ c # <<>>) => ~call.result
           /\ (c = <<>> /\ v = S_3_9_1) => ~call.result

C10_Witness ==
    /\ call.op = "matchesVersion"
    /\ call.version = S_3_91
    /\ call.cycle = S_3_9
    /\ ~call.result

-----------------------------------------------------------------------------
(* Inputs of the store operations and of the scanner                       *)

\* An EOL date after every instant the clock reaches, forward window included.
FarDay == MaxNow + MaxForward + 1

R_312 == ReleaseData(S_3_12, "false", DateText(FarDay), TRUE, LatestString(S_3_12_1))
R_312flag == ReleaseData(S_3_12, "false", <<>>, TRUE, LatestString(S_3_12_1))
R_27 == ReleaseData(S_2_7, "true", <<>>, FALSE, LatestNil)
R_27dated == ReleaseData(S_2_7, "true", DateText(0), FALSE, LatestNil)

ReleaseInputs == {R_312, R_312flag, R_27, R_27dated}

I_purlPython == Identifier("purl", S_purlPython)
I_purlNginx == Identifier("purl", S_purlNginx)
I_cpePython == Identifier("cpe", S_cpePython)
I_emptyType == Identifier("", S_python)
I_emptyId == Identifier("repology", <<>>)

IdentifierLists ==
    {<<I_purlPython>>, <<I_emptyType, I_purlNginx, I_emptyId, I_cpePython>>}

PD_python == ProductData(S_python, S_lang, S_Python, <<S_cpython>>, <<>>, <<>>)
PD_pythonBare == ProductData(S_python, <<>>, <<>>, <<>>, <<>>, <<>>)
PD_nginx == ProductData(S_nginx, S_os, <<>>, <<>>, <<>>, <<>>)

ProductInputs == {PD_python, PD_pythonBare, PD_nginx}

CategoryInputs ==
    {<<S_lang, S_Languages, 1>>, <<S_lang, <<>>, 2>>, <<S_os, <<>>, 1>>}

\* A package of the SBOM: the fields of pkg.Package checkComponent reads.
Package(name, version, purl) == [Name |-> name, Version |-> version, PURL |-> purl]

Pkg_python27 == Package(S_python, S_2_7_18, S_purlPython27)
Pkg_nginxPythonPurl == Package(S_nginx, S_2_7_18, S_purlPython)
Pkg_noPurl == Package(S_python, S_3_12_1, <<>>)

Packages == {Pkg_python27, Pkg_nginxPythonPurl, Pkg_noPurl}

LookupFaults == {"none", "query"}

-----------------------------------------------------------------------------
(* Actions: direct calls of the store operations and of the scanner        *)

\* In ret, next to what the operation returned, its arguments and the rows
\* stored under its key before the call.
UpsertCategory(name, label, total, fault) ==
    /\ DoUpsertCategory(name, label, total, fault)
    /\ ret' = UpsertCategoryRet(name, fault)
                 @@ [label |-> label, total |-> total,
                     before |-> {c \in categories : c.name = name}]
    /\ scan' = NoScan
    /\ UNCHANGED <<products, cycles, identifiers, meta, nextProductId,
                   now, sync, call>>

UpsertProduct(product, fault) ==
    /\ DoUpsertProduct(product, fault)
    /\ ret' = UpsertProductRet(product, fault)
                 @@ [product |-> product,
                     before |-> {p \in products : p.name = product.Name}]
    /\ scan' = NoScan
    /\ UNCHANGED <<categories, cycles, identifiers, meta, nextCategoryId,
                   now, sync, call>>

UpsertCycle(productID, release, fault) ==
    /\ DoUpsertCycle(productID, release, fault)
    /\ ret' = [field \in DOMAIN UpsertCycleRet(productID, release, fault)
                         \cup {"before", "repeated", "rowsChanged"} |->
                 CASE field = "before" ->
                          UpsertCycleCallInfo(productID, release).before
                   [] field = "repeated" ->
                          UpsertCycleCallInfo(productID, release).repeated
                   [] field = "rowsChanged" -> cycles' # cycles
                   [] OTHER -> UpsertCycleRet(productID, release, fault)[field]]
    /\ scan' = NoScan
    /\ UNCHANGED <<categories, products, identifiers, meta, nextCategoryId,
                   nextProductId, now, sync, call>>

UpsertIdentifiers(productID, list, failAt) ==
    /\ DoUpsertIdentifiers(productID, list, failAt)
    /\ ret' = UpsertIdentifiersRet(productID, list, failAt)
                 @@ [before |-> identifiers]
    /\ scan' = NoScan
    /\ UNCHANGED <<categories, products, cycles, meta, nextCategoryId,
                   nextProductId, now, sync, call>>

\* analyzeSBOM over the component results of the packages, in order: the
\* summary with its counts, and the error it returns, which is always nil.
analyzeSBOM(results) ==
    [Components |-> results,
     TotalComponents |-> Len(results),
     UnknownComponents |->
         Cardinality({i \in 1..Len(results) :
                         results[i].Status = StatusUnknown}),
     err |-> FALSE]

\* The scanner checks the one package of an SBOM against the database; scan
\* keeps the component's result and what analyzeSBOM returns to its caller.
CheckComponent(p, fault, forwardLookupDays) ==
    /\ \E result \in checkComponent(p, fault, now, forwardLookupDays) :
         scan' = [op |-> "checkComponent", component |-> p, fault |-> fault,
                  forwardLookupDays |-> forwardLookupDays, result |-> result,
                  summary |-> analyzeSBOM(<<result>>)]
    /\ ret' = NoRet
    /\ UNCHANGED <<storeVars, now, sync, call>>

CallUpsertCategory ==
    \E input \in CategoryInputs, fault \in CategoryFaults :
        UpsertCategory(input[1], input[2], input[3], fault)

CallUpsertProduct ==
    \E product \in ProductInputs, fault \in ProductFaults :
        UpsertProduct(product, fault)

CallUpsertCycle ==
    \E productID \in 1..MaxProductId, release \in ReleaseInputs \ {R_312flag},
       fault \in CycleFaults :
        UpsertCycle(productID, release, fault)

\* A product is created for cycles to refer to.
CallCreateProduct ==
    \E product \in {PD_pythonBare, PD_nginx} : UpsertProduct(product, "none")

CallUpsertIdentifiers ==
    \E productID \in 1..MaxProductId, list \in IdentifierLists,
       failAt \in 0..2 :
        UpsertIdentifiers(productID, list, failAt)

CallCheckComponent ==
    \E p \in Packages, fault \in LookupFaults :
        CheckComponent(p, fault, 1)

S_pypi == <<"p","y","p","i">>
S_generic == <<"g","e","n","e","r","i","c">>
S_npm == <<"n","p","m">>
S_redis == <<"r","e","d","i","s">>
S_python_dev == S_python \o <<"-","d","e","v">>
S_cpePy == <<"c","p","e",":","p","y">>
S_cpeRedis == <<"c","p","e",":","r","e","d","i","s">>

\* The arguments of the direct lookups.
LookupCalls ==
    {[op |-> "LookupByPURL", arg |-> a, type |-> <<>>] :
        a \in {S_purlPython, S_purlPython27, S_purlNginx}}
    \cup {[op |-> "LookupByCPE", arg |-> a, type |-> <<>>] :
        a \in {S_cpePython, S_cpePy, S_cpeRedis}}
    \cup {[op |-> "LookupByPURLPrefix", arg |-> a, type |-> t] :
        a \in {S_python, S_nginx}, t \in {S_pypi, S_npm}}
    \cup {[op |-> "LookupByName", arg |-> a, type |-> <<>>] :
        a \in {S_python, S_Python, S_cpython, S_python_dev, S_redis}}

\* The results the lookup may return.
LookupCallResults(lookup, fault) ==
    CASE lookup.op = "LookupByPURL" -> LookupByPURL(lookup.arg, fault)
      [] lookup.op = "LookupByCPE" -> LookupByCPE(lookup.arg, fault)
      [] lookup.op = "LookupByPURLPrefix" ->
             LookupByPURLPrefix(lookup.type, lookup.arg, fault)
      [] lookup.op = "LookupByName" -> LookupByName(lookup.arg, fault)

\* A lookup is called; ret records the call and what it returned.
CallLookup ==
    /\ \E lookup \in LookupCalls, fault \in LookupFaults :
         \E result \in LookupCallResults(lookup, fault) :
            ret' = [op |-> lookup.op, arg |-> lookup.arg, type |-> lookup.type,
                    fault |-> fault, result |-> result]
    /\ scan' = NoScan
    /\ UNCHANGED <<storeVars, now, sync, call>>

\* GetProductCycles is called.
CallGetProductCycles ==
    /\ \E productName \in {S_python, S_redis}, fault \in LookupFaults :
         \E result \in GetProductCyclesResults(productName, fault) :
            ret' = [op |-> "GetProductCycles", arg |-> productName,
                    type |-> <<>>, fault |-> fault, result |-> result]
    /\ scan' = NoScan
    /\ UNCHANGED <<storeVars, now, sync, call>>

\* A product, or a list of identifiers, is stored without a storage fault.
CallStoreProduct ==
    \E product \in ProductInputs : UpsertProduct(product, "none")
CallStoreIdentifiers ==
    \E productID \in 1..MaxProductId, list \in IdentifierLists :
        UpsertIdentifiers(productID, list, 0)

\* A cycle of the first product is stored.
CallStoreCycle == UpsertCycle(1, R_27, "none")

\* Categories and products.
NextCatalog == CallUpsertCategory \/ CallUpsertProduct
SpecCatalog == Init /\ [][NextCatalog]_vars

\* Products and their cycles.
NextCycles == CallCreateProduct \/ CallUpsertCycle
SpecCycles == Init /\ [][NextCycles]_vars

\* Releases of cycle 2.7 with every combination of isEol, eolFrom, isEoas
\* and eoasFrom.
PairReleases ==
    {[R_27 EXCEPT !.IsEol = isEol, !.EolFrom = eolFrom,
                  !.IsEoas = isEoas, !.EoasFrom = eoasFrom] :
        isEol \in {"nil", "true", "false"}, eolFrom \in {<<>>, DateText(0)},
        isEoas \in {"nil", "true"}, eoasFrom \in {<<>>, DateText(1)}}

CallUpsertPairCycle ==
    \E release \in PairReleases, fault \in CycleFaults :
        UpsertCycle(1, release, fault)

\* One cycle key written over and over with date-based and flag-based
\* payloads.
NextEolPair == CallCreateProduct \/ CallUpsertPairCycle
SpecEolPair == Init /\ [][NextEolPair]_vars

\* Products, their identifiers, and the scanner's lookups.
NextResolve == CallUpsertProduct \/ CallUpsertIdentifiers \/ CallCheckComponent
SpecResolve == Init /\ [][NextResolve]_vars

\* Products, their identifiers, and the lookups of the store.
NextLookup ==
    \/ CallStoreProduct
    \/ CallStoreIdentifiers
    \/ CallStoreCycle
    \/ CallLookup
    \/ CallGetProductCycles
SpecLookup == Init /\ [][NextLookup]_vars

-----------------------------------------------------------------------------
(* FullSync, one statement group at a time                                 *)

S_framework == <<"f","r","a","m","e","w","o","r","k">>
S_database == <<"d","a","t","a","b","a","s","e">>
S_server_app == <<"s","e","r","v","e","r","-","a","p","p">>
S_device == <<"d","e","v","i","c","e">>
S_iphone == <<"i","p","h","o","n","e">>

DefaultCategories == <<S_framework, S_lang, S_os, S_database, S_server_app>>

\* The categories argument of FullSync: nil, or a list.
NilCategories == [isNil |-> TRUE, list |-> <<>>]
CategoryList(list) == [isNil |-> FALSE, list |-> list]
CategoryArgs == {NilCategories, CategoryList(<<S_lang>>)}

\* What the upstream API serves at /products/full.
UP_python == ProductData(S_python, S_lang, S_Python, <<>>, <<>>, <<R_312, R_27>>)
UP_unnamed == ProductData(<<>>, S_lang, <<>>, <<>>, <<>>, <<R_27>>)
UP_nginx == ProductData(S_nginx, S_os, <<>>, <<>>, <<I_emptyId, I_purlNginx>>,
                        <<R_27dated>>)
UP_iphone == ProductData(S_iphone, S_device, <<>>, <<>>, <<>>, <<R_27>>)
Upstream == <<UP_python, UP_unnamed, UP_nginx, UP_iphone>>

\* "Filter by categories"
FilterByCategories(allProducts, categoryList) ==
    SelectSeq(allProducts,
              LAMBDA p : \E k \in DOMAIN categoryList : categoryList[k] = p.Category)

\* "Count per category": the entries of the categoryCounts map.
CategoryCounts(filteredProducts) ==
    {<<filteredProducts[k].Category,
       Cardinality({m \in DOMAIN filteredProducts :
                       filteredProducts[m].Category = filteredProducts[k].Category})>> :
        k \in DOMAIN filteredProducts}

\* The storage fails at a statement, or does not.
Faulty(s, failed) ==
    [s EXCEPT !.faults = IF failed THEN @ + 1 ELSE @]
MayFail(failed) == ~failed \/ sync.faults < MaxFaults

\* FullSync returns: (nil, err) or (result, err).
SyncReturn(s, err, withResult) ==
    [s EXCEPT !.pc = "done", !.err = err, !.returned = withResult]

\* The product loop moves to its next element, or ends.
NextProduct(s) ==
    [s EXCEPT !.i = s.i + 1, !.j = 0, !.productID = 0,
              !.pc = IF s.i + 1 > Len(s.filtered) THEN "metadata" ELSE "products"]

\* Mutant of OnProductError: a failed product upsert ends the sync.
OnProductError_Abort(s) == SyncReturn(s, "product", FALSE)

\* UpsertProduct failed: result.Errors++; continue
OnProductError(s) == NextProduct([s EXCEPT !.result.Errors = @ + 1])

\* Mutant of FetchFails: the request is made without the ctx.
FetchFails_IgnoringCtx(cancelled, upstreamFails) == upstreamFails

\* GetAllProductsFull(ctx) returns an error: the ctx of the request is
\* cancelled, or the request, the status or the body is bad.
FetchFails(cancelled, upstreamFails) == cancelled \/ upstreamFails

\* Bookkeeping: an upsert of the given kind starts; afterCancel collects the
\* kinds of the upserts started while the ctx was cancelled already.
Started(s, kind) ==
    [s EXCEPT !.afterCancel = IF s.cancelled THEN @ \cup {kind} ELSE @]

\* FullSync is called; the ctx may be cancelled already.
FullSyncCall(categoryArg, cancelled) ==
    /\ sync.pc \in {"idle", "done"}
    /\ sync.runs < MaxSyncs
    /\ sync' = [IdleSync EXCEPT
                  !.pc = "fetch",
                  !.runs = sync.runs + 1,
                  !.faults = sync.faults,
                  !.categories = IF categoryArg.isNil THEN DefaultCategories
                                 ELSE categoryArg.list,
                  !.cancelled = cancelled,
                  !.cancelAt = IF cancelled THEN "fetch" ELSE "never",
                  !.upstream = "first",
                  !.startTime = now,
                  !.before = Snapshot]
    /\ ret' = NoRet
    /\ scan' = NoScan
    /\ UNCHANGED <<storeVars, now, call>>

\* What the upstream API serves later on: python has lost release 2.7, and
\* nginx is gone.
UP_pythonLater == ProductData(S_python, S_lang, S_Python, <<>>, <<>>, <<R_312>>)
UpstreamLater == <<UP_pythonLater, UP_iphone>>

\* What the upstream serves at the time of a run.
UpstreamAt(time) == IF time = "later" THEN UpstreamLater ELSE Upstream

\* FullSync is called again on the same database, against what the upstream
\* serves at that time.  Bookkeeping: prev keeps the arguments, the upstream
\* data and the outcome of the run before.
FullSyncAgain(categoryArg, upstream) ==
    /\ sync.pc \in {"idle", "done"}
    /\ sync.runs < MaxRuns
    /\ sync' = [IdleSync EXCEPT
                  !.pc = "fetch",
                  !.runs = sync.runs + 1,
                  !.faults = sync.faults,
                  !.categories = IF categoryArg.isNil THEN DefaultCategories
                                 ELSE categoryArg.list,
                  !.upstream = upstream,
                  !.prev = [ran |-> sync.runs > 0,
                            categories |-> sync.categories,
                            upstream |-> sync.upstream,
                            result |-> sync.result,
                            err |-> sync.err,
                            returned |-> sync.returned,
                            faults |-> sync.faults],
                  !.startTime = now,
                  !.before = Snapshot]
    /\ ret' = NoRet
    /\ scan' = NoScan
    /\ UNCHANGED <<storeVars, now, call>>

\* The owner of the ctx cancels it while FullSync runs.
Cancel ==
    /\ sync.pc \notin {"idle", "done"}
    /\ ~sync.cancelled
    /\ sync' = [sync EXCEPT
                  !.cancelled = TRUE,
                  !.cancelAt = IF sync.pc \in {"fetch", "fetching"}
                               THEN "fetch" ELSE "after"]
    /\ UNCHANGED <<storeVars, now, ret, scan, call>>

\* client.Do sends the request, unless the ctx is cancelled already.
FetchSend ==
    /\ sync.pc = "fetch"
    /\ sync' = IF FetchFails(sync.cancelled, FALSE)
               THEN SyncReturn(sync, "fetch", FALSE)
               ELSE [sync EXCEPT !.pc = "fetching"]
    /\ UNCHANGED <<storeVars, now, ret, scan, call>>

\* The response arrives, or the request fails; then the filter and the counts.
FetchReceive(upstreamFails) ==
    /\ sync.pc = "fetching"
    /\ sync' = IF FetchFails(sync.cancelled, upstreamFails)
               THEN SyncReturn(sync, "fetch", FALSE)
               ELSE LET filtered == FilterByCategories(UpstreamAt(sync.upstream),
                                                       sync.categories)
                    IN [sync EXCEPT
                          !.filtered = filtered,
                          !.counts = CategoryCounts(filtered),
                          !.i = 1,
                          !.pc = IF filtered = <<>> THEN "metadata"
                                 ELSE "categories"]
    /\ UNCHANGED <<storeVars, now, ret, scan, call>>

\* One iteration of "Upsert categories"; the map is ranged in any order.
SyncCategory(entry, fault) ==
    /\ sync.pc = "categories"
    /\ entry \in sync.counts
    /\ MayFail(fault # "none")
    /\ DoUpsertCategory(entry[1], <<>>, entry[2], fault)
    /\ sync' = LET s == [Faulty(sync, fault # "none") EXCEPT
                           !.counts = sync.counts \ {entry},
                           !.execs = @ + UpsertCategoryRet(entry[1], fault).execs]
               IN IF UpsertCategoryRet(entry[1], fault).err
                  THEN SyncReturn(s, "category", FALSE)
                  ELSE [s EXCEPT !.pc = IF s.counts = {} THEN "products"
                                        ELSE "categories"]
    /\ UNCHANGED <<products, cycles, identifiers, meta, nextProductId,
                   now, ret, scan, call>>

\* One iteration of "Process products" up to the product upsert.
SyncProduct(fault) ==
    /\ sync.pc = "products"
    /\ MayFail(fault # "none")
    /\ LET product == sync.filtered[sync.i]
       IN IF product.Name = <<>>
          THEN /\ fault = "none"
               /\ sync' = NextProduct(sync)
               /\ UNCHANGED <<products, nextProductId>>
          ELSE /\ DoUpsertProduct(product, fault)
               /\ sync' =
                    LET s == [Started(Faulty(sync, fault # "none"), "product") EXCEPT
                                !.attempted = @ \cup {<<"product", sync.i, 0>>},
                                !.execs = @ + UpsertProductRet(product, fault).execs]
                    IN IF UpsertProductRet(product, fault).err
                       THEN OnProductError(
                                [s EXCEPT !.failed = @ \cup {<<"product", sync.i, 0>>}])
                       ELSE [s EXCEPT
                               !.result.ProductsProcessed = @ + 1,
                               !.productID = UpsertProductRet(product, fault).id,
                               !.pc = "identifiers"]
    /\ UNCHANGED <<categories, cycles, identifiers, meta, nextCategoryId,
                   now, ret, scan, call>>

\* "Upsert identifiers" of the current product.
SyncIdentifiers(failAt) ==
    /\ sync.pc = "identifiers"
    /\ LET product == sync.filtered[sync.i]
           r == UpsertIdentifiersRet(sync.productID, product.Identifiers, failAt)
       IN /\ failAt <= Len(NonEmptyIdentifiers(product.Identifiers))
          /\ MayFail(failAt # 0)
          /\ DoUpsertIdentifiers(sync.productID, product.Identifiers, failAt)
          /\ sync' =
               LET s == [Started(Faulty(sync, failAt # 0), "identifiers") EXCEPT
                           !.attempted = @ \cup {<<"identifiers", sync.i, 0>>},
                           !.failed = IF r.err
                                      THEN @ \cup {<<"identifiers", sync.i, 0>>}
                                      ELSE @,
                           !.execs = @ + r.execs,
                           !.result.Errors = IF r.err THEN @ + 1 ELSE @,
                           !.result.IdentifiersProcessed = @ + r.count]
               IN IF product.Releases = <<>>
                  THEN NextProduct(s)
                  ELSE [s EXCEPT !.pc = "cycles", !.j = 1]
    /\ UNCHANGED <<categories, products, cycles, meta, nextCategoryId,
                   nextProductId, now, ret, scan, call>>

\* One iteration of "Upsert cycles" of the current product.
SyncCycle(fault) ==
    /\ sync.pc = "cycles"
    /\ MayFail(fault # "none")
    /\ LET product == sync.filtered[sync.i]
           release == product.Releases[sync.j]
           r == UpsertCycleRet(sync.productID, release, fault)
       IN /\ DoUpsertCycle(sync.productID, release, fault)
          /\ sync' =
               LET s == [Started(Faulty(sync, fault # "none"), "cycle") EXCEPT
                           !.attempted = @ \cup {<<"cycle", sync.i, sync.j>>},
                           !.failed = IF r.err
                                      THEN @ \cup {<<"cycle", sync.i, sync.j>>}
                                      ELSE @,
                           !.execs = @ + r.execs,
                           !.result.Errors = IF r.err THEN @ + 1 ELSE @,
                           !.result.CyclesProcessed =
                               IF ~r.err /\ r.changed THEN @ + 1 ELSE @,
                           !.j = sync.j + 1]
               IN IF sync.j + 1 > Len(product.Releases)
                  THEN NextProduct(s)
                  ELSE s
    /\ UNCHANGED <<categories, products, identifiers, meta, nextCategoryId,
                   nextProductId, now, ret, scan, call>>

\* Mutant of MetaAfterSync: the row is left alone when an item failed.
MetaAfterSync_OnlyWhenClean(fault) ==
    IF fault # "none" \/ sync.result.Errors > 0 THEN meta
    ELSE [last_full_sync |-> ValidString(TimestampText(now)),
          last_update_check |-> ValidString(TimestampText(now)),
          categories_synced |-> ValidString(JsonStringList(sync.categories)),
          products_count |-> Cardinality(products),
          cycles_count |-> Cardinality(cycles),
          identifiers_count |-> Cardinality(identifiers)]

\* The sync_metadata row after the UPDATE of "Update sync metadata", which
\* writes nothing when the statement fails.
MetaAfterSync(fault) ==
    IF fault # "none" THEN meta
    ELSE [last_full_sync |-> ValidString(TimestampText(now)),
          last_update_check |-> ValidString(TimestampText(now)),
          categories_synced |-> ValidString(JsonStringList(sync.categories)),
          products_count |-> Cardinality(products),
          cycles_count |-> Cardinality(cycles),
          identifiers_count |-> Cardinality(identifiers)]

\* "Update sync metadata", and the return of (result, err).
SyncMetadata(fault) ==
    /\ sync.pc = "metadata"
    /\ MayFail(fault # "none")
    /\ meta' = MetaAfterSync(fault)
    /\ sync' = SyncReturn([Faulty(sync, fault # "none") EXCEPT
                              !.execs = IF fault = "none" THEN @ + 1 ELSE @],
                          IF fault = "none" THEN "none" ELSE "metadata", TRUE)
    /\ UNCHANGED <<categories, products, cycles, identifiers, nextCategoryId,
                   nextProductId, now, ret, scan, call>>

\* Time passes between calls; tick 0 is the time of the first FullSync call.
Tick ==
    /\ sync.pc = "done"
    /\ now < MaxNow
    /\ now' = now + 1
    /\ scan' = NoScan
    /\ UNCHANGED <<storeVars, ret, sync, call>>

CallFullSync ==
    \E categoryArg \in CategoryArgs, cancelled \in BOOLEAN :
        FullSyncCall(categoryArg, cancelled)

StepFetch == FetchSend \/ \E upstreamFails \in BOOLEAN : FetchReceive(upstreamFails)

StepCategory ==
    \E entry \in sync.counts, fault \in CategoryFaults : SyncCategory(entry, fault)

StepProduct == \E fault \in ProductFaults : SyncProduct(fault)

StepIdentifiers == \E failAt \in 0..2 : SyncIdentifiers(failAt)

StepCycle == \E fault \in CycleFaults : SyncCycle(fault)

StepMetadata == \E fault \in {"none", "exec"} : SyncMetadata(fault)

\* The scanner checks a package while no sync runs.
ScanComponent == sync.pc \in {"idle", "done"} /\ CallCheckComponent

\* One database: syncs from upstream, and scans between them.
NextSync ==
    \/ CallFullSync
    \/ Cancel
    \/ StepFetch
    \/ StepCategory
    \/ StepProduct
    \/ StepIdentifiers
    \/ StepCycle
    \/ StepMetadata
    \/ Tick
    \/ ScanComponent
SpecSync == Init /\ [][NextSync]_vars

CallFullSyncAgain ==
    \E categoryArg \in CategoryArgs, upstream \in {"first", "later"} :
        FullSyncAgain(categoryArg, upstream)

\* One database synced several times, while the upstream data and the
\* configured categories change between the runs.
NextResync ==
    \/ CallFullSyncAgain
    \/ StepFetch
    \/ StepCategory
    \/ StepProduct
    \/ StepIdentifiers
    \/ StepCycle
    \/ StepMetadata
SpecResync == Init /\ [][NextResync]_vars

-----------------------------------------------------------------------------
(* Scans that follow one another on one database path (SpecScans).  call   *)
(* holds the scan in progress: pc is its position (sync: syncDatabase is   *)
(* waiting for FullSync; sbom: ensureDatabase returned nil; analysis:      *)
(* analyzeSBOM was reached; error: the scan returned an error; panic: it   *)
(* crashed), dbExists is what os.Stat found, and dbFile whether the        *)
(* database file exists on disk.  Before the first scan there is no file.  *)

ScanIdle == call = NoCall \/ (call.op = "scan" /\ call.pc \in {"analysis", "error", "panic"})

DbFileExists == call.op = "scan" /\ call.dbFile

\* ScanFromTar, ScanFromRegistry or ScanFromDocker is called and runs
\* ensureDatabase: os.Stat, then NewEOLDatabaseManager, which creates the
\* file and its tables when it succeeds, then the initial sync or the
\* staleness check.  A failed open leaves the disk as it was.
ScanStart(autoUpdateDB, openFails, statsErr, dbMaxAge, categoryArg) ==
    /\ ScanIdle
    /\ sync.pc \in {"idle", "done"}
    /\ (IF call = NoCall THEN 0 ELSE call.scans) < MaxScans
    /\ LET ensured == ensureDatabase(DbFileExists, openFails, autoUpdateDB,
                                     Stats(meta.last_full_sync), statsErr,
                                     now, dbMaxAge)
           syncs == ensured.outcome = "return" /\ ensured.fullSync
       IN /\ syncs => sync.runs < MaxRuns
          /\ call' = [op |-> "scan",
                      pc |-> IF ensured.outcome # "return" THEN ensured.outcome
                             ELSE IF ensured.fullSync THEN "sync" ELSE "sbom",
                      scans |-> (IF call = NoCall THEN 0 ELSE call.scans) + 1,
                      autoUpdateDB |-> autoUpdateDB,
                      dbExists |-> DbFileExists,
                      dbFile |-> DbFileExists \/ ~openFails]
          /\ sync' = IF syncs
                     THEN [IdleSync EXCEPT
                             !.pc = "fetch",
                             !.runs = sync.runs + 1,
                             !.faults = sync.faults,
                             !.categories = IF categoryArg.isNil
                                            THEN DefaultCategories
                                            ELSE categoryArg.list,
                             !.upstream = "first",
                             !.startTime = now,
                             !.before = Snapshot]
                     ELSE sync
    /\ ret' = NoRet
    /\ scan' = NoScan
    /\ UNCHANGED <<storeVars, now>>

\* syncDatabase: FullSync has returned; its error ends the scan.
ScanSynced ==
    /\ call.op = "scan" /\ call.pc = "sync"
    /\ sync.pc = "done"
    /\ call' = [call EXCEPT !.pc = IF sync.err = "none" THEN "sbom" ELSE "error"]
    /\ UNCHANGED <<storeVars, now, ret, sync, scan>>

\* The SBOM is generated; unless that fails, analyzeSBOM starts checking
\* the components against the catalog.
ScanGenerate(sbomFails) ==
    /\ call.op = "scan" /\ call.pc = "sbom"
    /\ call' = [call EXCEPT !.pc = IF sbomFails THEN "error" ELSE "analysis"]
    /\ UNCHANGED <<storeVars, now, ret, sync, scan>>

CallScanStart ==
    \E autoUpdateDB \in BOOLEAN, openFails \in BOOLEAN, statsErr \in BOOLEAN,
       dbMaxAge \in 0..MaxAge, categoryArg \in CategoryArgs :
        ScanStart(autoUpdateDB, openFails, statsErr, dbMaxAge, categoryArg)

CallScanGenerate == \E sbomFails \in BOOLEAN : ScanGenerate(sbomFails)

NextScans ==
    \/ CallScanStart
    \/ ScanSynced
    \/ CallScanGenerate
    \/ StepFetch
    \/ StepCategory
    \/ StepProduct
    \/ StepIdentifiers
    \/ StepCycle
    \/ StepMetadata
    \/ Tick
SpecScans == Init /\ [][NextScans]_vars

-----------------------------------------------------------------------------
(* Two sync runs on one database whose UpsertCycle calls interleave        *)
(* statement by statement (SpecInterleave).  call holds the two runs: for  *)
(* each its position in UpsertCycle (idle; insert: the SELECT of the       *)
(* stored hash is done and did not match; returned), the arguments of the  *)
(* call, what it returned, and as bookkeeping the rows the SELECT met      *)
(* under the key (read), the number of its calls and whether its INSERT    *)
(* ran while the other run stood between its own SELECT and INSERT on the  *)
(* same key (raced).                                                       *)

Runs == {1, 2}

IdleRun ==
    [pc |-> "idle", productID |-> 0, release |-> R_27, changed |-> FALSE,
     err |-> FALSE, read |-> {}, calls |-> 0, raced |-> FALSE]

Run(r) == IF call.op = "UpsertCycles" THEN call.runs[r] ELSE IdleRun

RunsExcept(r, state) ==
    [op |-> "UpsertCycles", runs |-> [q \in Runs |-> IF q = r THEN state ELSE Run(q)]]

\* UpsertCycle up to and including its SELECT: the statement reads the
\* stored hash, and the call returns (false, nil) when it equals the
\* incoming one.
CycleSelect(r, productID, release, fault) ==
    /\ Run(r).pc \in {"idle", "returned"}
    /\ Run(r).calls < MaxUpserts
    /\ call' = RunsExcept(r,
                  [pc |-> IF CycleUnchanged(productID, release, fault)
                          THEN "returned" ELSE "insert",
                   productID |-> productID, release |-> release,
                   changed |-> FALSE, err |-> FALSE,
                   read |-> IF fault = "query" THEN {}
                            ELSE {c \in cycles : /\ c.product_id = productID
                                                 /\ c.cycle = release.Name},
                   calls |-> Run(r).calls + 1, raced |-> FALSE])
    /\ UNCHANGED <<storeVars, now, ret, sync, scan>>

\* The INSERT ... ON CONFLICT statement of UpsertCycle, and its return.
CycleInsert(r, fault) ==
    /\ Run(r).pc = "insert"
    /\ cycles' = IF fault = "exec" THEN cycles
                 ELSE CyclesAfterUpsert(Run(r).productID, Run(r).release)
    /\ call' = RunsExcept(r,
                  [Run(r) EXCEPT
                     !.pc = "returned",
                     !.changed = fault # "exec",
                     !.err = fault = "exec",
                     !.raced = \E q \in Runs \ {r} :
                                  /\ Run(q).pc = "insert"
                                  /\ Run(q).productID = Run(r).productID
                                  /\ Run(q).release.Name = Run(r).release.Name])
    /\ UNCHANGED <<categories, products, identifiers, meta, nextCategoryId,
                   nextProductId, now, ret, sync, scan>>

InterleaveReleases == {R_312, R_27, R_27dated}

\* The ids of the products whose cycles the two runs write.
InterleaveProducts == {1, 2}

StepSelect ==
    \E r \in Runs, productID \in InterleaveProducts, release \in InterleaveReleases,
       fault \in {"none", "query"} :
        CycleSelect(r, productID, release, fault)

StepInsert == \E r \in Runs, fault \in {"none", "exec"} : CycleInsert(r, fault)

NextInterleave == StepSelect \/ StepInsert
SpecInterleave == Init /\ [][NextInterleave]_vars

-----------------------------------------------------------------------------
(* Properties of the store operations (SpecCycles, SpecCatalog)            *)

\* C1: UpsertCycle is idempotent.  A call that meets no storage fault returns
\* changed=true when no row is stored under (productID, cycle) or the stored
\* row differs from the payload's; when the call before it was the same call
\* (same productID, identical payload) it returns changed=false with no
\* error, executes no write statement and leaves every stored cycle row as
\* it was.
C1_UpsertCycleIdempotent ==
    (ret.op = "UpsertCycle" /\ ret.fault = "none") =>
        /\ (ret.before # {CycleRow(ret.productID, ret.release)}) => ret.changed
        /\ ret.repeated =>
             /\ ~ret.changed
             /\ ~ret.err
             /\ ret.execs = 0
             /\ ~ret.rowsChanged

\* A second identical UpsertCycle call has returned changed=false, for a
\* product id that no product carries as well as for one that exists.
C1_Witness ==
    /\ ret.op = "UpsertCycle"
    /\ ret.fault = "none"
    /\ ret.repeated
    /\ ~ret.changed
    /\ ret.before = {CycleRow(ret.productID, ret.release)}
    /\ ret.release = R_27dated
    /\ Cardinality(cycles) > 1

\* In the tables: one record per name and per id, and the id a successful
\* upsert returned is the id stored under the name.
C2_OneRecordPerName ==
    /\ \A p, q \in products : (p.name = q.name \/ p.id = q.id) => p = q
    /\ \A c, d \in categories : (c.name = d.name \/ c.id = d.id) => c = d
    /\ (ret.op = "UpsertProduct" /\ ~ret.err) =>
          \E p \in products : p.name = ret.name /\ p.id = ret.id
    /\ (ret.op = "UpsertCategory" /\ ~ret.err) =>
          \E c \in categories : c.name = ret.name /\ c.id = ret.id

\* In a step: every stored name keeps its id.
C2_IdsKept ==
    /\ \A p \in products : \E q \in products' : q.name = p.name /\ q.id = p.id
    /\ \A c \in categories : \E d \in categories' : d.name = c.name /\ d.id = c.id

\* C2: after any sequence of UpsertProduct and UpsertCategory calls there is
\* at most one product record per name and one category record per name, and
\* every successful upsert of a name returns the id stored under it, which is
\* the id of its first upsert since no step changes the id of a stored name.
C2_UniqueNamesStableIds == []C2_OneRecordPerName /\ [][C2_IdsKept]_vars

\* The product created first was upserted again after a second product was
\* created, and the call returned the first product's id.
C2_Witness ==
    /\ Cardinality(products) = 2
    /\ Cardinality(categories) = 2
    /\ ret.op = "UpsertProduct"
    /\ ~ret.err
    /\ ret.id = 1
    /\ \E p \in products : p.id = 1 /\ p.name = ret.name

-----------------------------------------------------------------------------
(* Properties of the resolution (SpecResolve)                              *)

\* The products that hold the PURL as a stored purl identifier.
PurlHolders(purl) == ProductsByIdentifier("purl", LAMBDA v : v = purl)

\* C3: strategy order is first-match-wins.  When the component's PURL equals
\* a stored purl identifier of some product and the lookup meets no storage
\* error, the component resolves to a product holding that PURL; a different
\* product that only carries the component's name is never the result.
C3_ExactPurlFirst ==
    (/\ scan.op = "checkComponent"
     /\ scan.fault = "none"
     /\ PurlHolders(scan.component.PURL) # {}) =>
        /\ \E a \in PurlHolders(scan.component.PURL) :
              scan.result.MatchedProduct = a.name
        /\ \A b \in products \ PurlHolders(scan.component.PURL) :
              b.name = scan.component.Name =>
                 scan.result.MatchedProduct # b.name

\* A component named nginx whose PURL is a stored purl identifier of python
\* only was checked while a product nginx exists, and resolved to python.
C3_Witness ==
    /\ scan.op = "checkComponent"
    /\ scan.fault = "none"
    /\ scan.component = Pkg_nginxPythonPurl
    /\ \E a \in products :
          /\ PurlHolders(scan.component.PURL) = {a}
          /\ a.name = S_python
          /\ scan.result.MatchedProduct = a.name
    /\ \E b \in products : b.name = scan.component.Name

-----------------------------------------------------------------------------
(* Properties of FullSync and of scans of a synced catalog (SpecSync)       *)

\* The catalog holds only product python, category lang, without purl
\* identifiers, with cycles 3.12 (EOL date in the future) and 2.7 (flagged
\* EOL).
PythonOnlyCatalog ==
    /\ \E p \in products :
          /\ products = {p}
          /\ p.name = S_python
          /\ p.category_name = ValidString(S_lang)
          /\ \A c \in cycles : c.product_id = p.id
    /\ \A i \in identifiers : i.identifier_type # "purl"
    /\ {c.cycle : c \in cycles} = {S_3_12, S_2_7}
    /\ \A c \in cycles :
          /\ c.cycle = S_2_7 => c.eol_boolean = ValidInt64(1)
          /\ c.cycle = S_3_12 =>
                /\ c.eol.Valid
                /\ ParseDate(c.eol.String).ok
                /\ ParseDate(c.eol.String).t > now

\* C4: end to end, in the catalog PythonOnlyCatalog the check of component
\* {name python, version 2.7.18, purl pkg:pypi/python@2.7.18} matches
\* product python and cycle 2.7 through the name lookup and yields status
\* EOL.
C4_NameFallbackEndToEnd ==
    (/\ PythonOnlyCatalog
     /\ scan.op = "checkComponent"
     /\ scan.fault = "none"
     /\ scan.component = Pkg_python27) =>
        /\ scan.result.MatchedProduct = S_python
        /\ scan.result.MatchedCycle = S_2_7
        /\ scan.result.Status = StatusEOL

\* C5: when the ctx is cancelled before or during the upstream fetch,
\* FullSync goes no further than the fetch, returns an error and no result,
\* and executes no write: categories, products, cycles, identifiers and
\* sync_metadata are as they were at the call.
C5_CancelledFetchWritesNothing ==
    sync.cancelAt = "fetch" =>
        /\ sync.pc \in {"fetch", "fetching", "done"}
        /\ sync.pc = "done" => (sync.err = "fetch" /\ ~sync.returned)
        /\ sync.execs = 0
        /\ Snapshot = sync.before

\* A FullSync whose ctx was cancelled before or during the fetch has returned.
C5_Witness ==
    /\ sync.cancelAt = "fetch"
    /\ sync.pc = "done"
    /\ sync.err = "fetch"

\* C6: FullSync is best-effort per item.  The error counter counts the
\* failed upserts; a run in which an upsert of a product, of its identifiers
\* or of a cycle failed still returns a result, with no error other than
\* that of the final metadata update; in it the upsert of every filtered
\* product with a name was attempted, a product whose upsert failed is
\* skipped (none of its cycles is attempted), and every cycle of every other
\* product was attempted.
C6_BestEffortPerItem ==
    /\ sync.result.Errors = Cardinality(sync.failed)
    /\ (sync.pc = "done" /\ sync.failed # {}) =>
          /\ sync.returned
          /\ sync.err \in {"none", "metadata"}
          /\ \A i \in DOMAIN sync.filtered :
                sync.filtered[i].Name # <<>> =>
                   /\ <<"product", i, 0>> \in sync.attempted
                   /\ \A j \in DOMAIN sync.filtered[i].Releases :
                         <<"cycle", i, j>> \in sync.attempted
                            <=> <<"product", i, 0>> \notin sync.failed

\* A run in which the upsert of the first product failed went on to the
\* last product and its cycle, and returned a result counting one error.
C6_Witness ==
    /\ sync.pc = "done"
    /\ <<"product", 1, 0>> \in sync.failed
    /\ <<"product", Len(sync.filtered), 0>> \in sync.attempted
    /\ <<"cycle", Len(sync.filtered), 1>> \in sync.attempted
    /\ Len(sync.filtered) > 1
    /\ sync.returned
    /\ sync.err = "none"
    /\ sync.result.Errors = 1

-----------------------------------------------------------------------------
(* Properties of the pure functions, continued (SpecPure)                  *)

\* What precedes the first "." of s, after one leading "v" is stripped.
LeadingToken(s) ==
    LET t == IF s # <<>> /\ s[1] = "v" THEN SubSeq(s, 2, Len(s)) ELSE s
        dots == {k \in 1..Len(t) : t[k] = "."}
    IN IF dots = {} THEN t
       ELSE SubSeq(t, 1, (CHOOSE k \in dots : \A m \in dots : k <= m) - 1)

\* C11: matchesMajorVersion(version, cycle) is true exactly when the leading
\* tokens of version and cycle are equal and non-empty, the leading token
\* being what precedes the first "." after one leading "v" is stripped; "-"
\* and "_" do not end the token: "3-alpine" does not major-match "3",
\* "4.0.0" does not major-match "3.9", and "v2.1.0" major-matches "2.0".
C11_MatchesMajorVersion ==
    call.op = "matchesMajorVersion" =>
        /\ call.result <=>
              /\ LeadingToken(call.version) = LeadingToken(call.cycle)
              /\ LeadingToken(call.version) # <<>>
        /\ (call.version = S_3_alpine /\ call.cycle = S_3) => ~call.result
        /\ (call.version = S_4_0_0 /\ call.cycle = S_3_9) => ~call.result
        /\ (call.version = S_v2_1_0 /\ call.cycle = S_2_0) => call.result

\* matchesMajorVersion("3-alpine", "3") was called and answered false.
C11_Witness ==
    /\ call.op = "matchesMajorVersion"
    /\ call.version = S_3_alpine
    /\ call.cycle = S_3
    /\ ~call.result

-----------------------------------------------------------------------------
(* Properties of the store operations, continued (SpecCatalog)             *)

\* The value a merged text column is to hold: the stored value when the
\* incoming text is empty, the incoming text otherwise.
MergedText(stored, incoming) ==
    IF incoming = <<>> THEN stored ELSE ValidString(incoming)

\* C12: UpsertProduct on an existing name merges: categoryName, label, link
\* and versionCommand keep their stored value when the incoming value is
\* empty and are overwritten when it is not; aliases and tags are replaced by
\* the incoming lists.
C12_UpsertProductMerges ==
    (ret.op = "UpsertProduct" /\ ~ret.err /\ ret.before # {}) =>
        \A old \in ret.before :
            \E new \in products :
                /\ new.name = ret.name
                /\ new.category_name =
                      MergedText(old.category_name, ret.product.Category)
                /\ new.label = MergedText(old.label, ret.product.Label)
                /\ new.link = MergedText(old.link, ret.product.Link)
                /\ new.version_command =
                      MergedText(old.version_command, ret.product.VersionCommand)
                /\ new.aliases = ValidString(JsonStringList(ret.product.Aliases))
                /\ new.tags = ValidString(JsonStringList(ret.product.Tags))

\* C13: UpsertCategory on an existing name keeps the stored label when the
\* incoming label is empty and overwrites the product count.
C13_UpsertCategoryKeepsLabel ==
    (ret.op = "UpsertCategory" /\ ~ret.err /\ ret.before # {}) =>
        \A old \in ret.before :
            \E new \in categories :
                /\ new.name = ret.name
                /\ new.label = MergedText(old.label, ret.label)
                /\ new.total_products = ret.total

-----------------------------------------------------------------------------
(* Properties of the identifiers and of the lookups (SpecResolve)          *)

\* The positions of a list whose entry has a non-empty type and value.
FilledEntries(list) ==
    {k \in DOMAIN list : list[k].Type # "" /\ list[k].ID # <<>>}

\* C14: an UpsertIdentifiers call that meets no storage fault writes exactly
\* the entries whose type and value are both non-empty and returns their
\* number; the other entries create no row; the rows stored before the call,
\* those under a key of the list included, are as they were.
C14_UpsertIdentifiersWritesFilled ==
    (ret.op = "UpsertIdentifiers" /\ ~ret.err) =>
        /\ identifiers = ret.before \cup
              {[product_id |-> ret.productID,
                identifier_type |-> ret.list[k].Type,
                identifier_value |-> ret.list[k].ID] : k \in FilledEntries(ret.list)}
        /\ ret.count = Cardinality(FilledEntries(ret.list))
        /\ \A r \in identifiers :
              r.identifier_type # "" /\ r.identifier_value # <<>>

\* A list with an entry of empty type, an entry of empty value and two
\* filled entries, one of them stored already, was upserted: count is 2.
C14_Witness ==
    /\ ret.op = "UpsertIdentifiers"
    /\ ~ret.err
    /\ Len(ret.list) = 4
    /\ ret.count = 2
    /\ IdentifierRow(ret.productID, I_purlNginx) \in ret.before
    /\ IdentifierRow(ret.productID, I_cpePython) \notin ret.before
    /\ Cardinality(identifiers) = Cardinality(ret.before) + 1

\* s contains sub, compared without regard to ASCII case.
ContainsText(s, sub) ==
    \E k \in 1..(Len(s) - Len(sub) + 1) :
        Lower(SubSeq(s, k, k + Len(sub) - 1)) = Lower(sub)

\* s starts with prefix, compared without regard to ASCII case.
StartsWithText(s, prefix) ==
    /\ Len(s) >= Len(prefix)
    /\ Lower(SubSeq(s, 1, Len(prefix))) = Lower(prefix)

\* The values of the identifiers of a type that belong to a stored product.
StoredIdentifierValues(type) ==
    {i.identifier_value : i \in {j \in identifiers :
        /\ j.identifier_type = type
        /\ \E p \in products : p.id = j.product_id}}

\* No stored record matches the lookup recorded in ret: no purl identifier
\* is the PURL or starts with its version-stripped part; no cpe identifier
\* starts with the CPE; no purl identifier starts with pkg:<type>/<name> or
\* is pkg:<type>/ followed by a scope and /<name>; no product has the
\* normalized name as its name, as one of its aliases or as a repology
\* identifier.
NoStoredMatch ==
    CASE ret.op = "LookupByPURL" ->
           \A v \in StoredIdentifierValues("purl") :
              /\ v # ret.arg
              /\ ~StartsWithText(v,
                    IF \E k \in DOMAIN ret.arg : ret.arg[k] = "@"
                    THEN SubSeq(ret.arg, 1,
                           (CHOOSE k \in DOMAIN ret.arg :
                               /\ ret.arg[k] = "@"
                               /\ \A m \in DOMAIN ret.arg :
                                     ret.arg[m] = "@" => m <= k) - 1)
                    ELSE ret.arg)
      [] ret.op = "LookupByCPE" ->
           \A v \in StoredIdentifierValues("cpe") : ~StartsWithText(v, ret.arg)
      [] ret.op = "LookupByPURLPrefix" ->
           \A v \in StoredIdentifierValues("purl") :
              LET head == <<"p","k","g",":">> \o ret.type \o <<"/">>
              IN ~(/\ StartsWithText(v, head)
                   /\ \/ StartsWithText(v, head \o ret.arg)
                      \/ ContainsText(SubSeq(v, Len(head) + 1, Len(v)),
                                      <<"/">> \o ret.arg))
      [] ret.op = "LookupByName" ->
           LET n == normalizePackageName(ret.arg)
           IN /\ \A p \in products :
                    /\ Lower(p.name) # Lower(n)
                    /\ ~(p.aliases.Valid /\
                           ContainsText(p.aliases.String, <<"\"">> \o n \o <<"\"">>))
              /\ \A v \in StoredIdentifierValues("repology") : Lower(v) # Lower(n)
      [] ret.op = "GetProductCycles" ->
           \A p \in products : p.name # ret.arg
      [] OTHER -> FALSE

\* C15: not-found is never an error.  A lookup that meets no storage fault
\* and for which no stored record matches returns a nil product, no cycles
\* and a nil error; GetProductCycles for an unknown product name returns an
\* empty list and a nil error.
C15_NotFoundIsNoError ==
    (ret.op \in {"LookupByPURL", "LookupByCPE", "LookupByPURLPrefix",
                 "LookupByName", "GetProductCycles"}
       /\ ret.fault = "none" /\ NoStoredMatch) =>
        /\ ~ret.result.err
        /\ ret.result.cycles = <<>>
        /\ ret.op # "GetProductCycles" => ret.result.product = NilProduct

\* LookupByCPE found no match in a catalog that holds products and cpe
\* identifiers, and returned a nil product without error.
C15_Witness ==
    /\ ret.op = "LookupByCPE"
    /\ ret.fault = "none"
    /\ NoStoredMatch
    /\ StoredIdentifierValues("cpe") # {}
    /\ ProductCycleRows(S_python) # {}
    /\ ret.result = LookupNotFound


\* C16: a storage error raised while looking up a single component aborts
\* that lookup and is reported upward to the caller of the scan: the scan
\* returns an error, and the component is not given a normal result such as
\* status unknown.
C16_LookupErrorReported ==
    (/\ scan.op = "checkComponent"
     /\ scan.fault = "query"
     /\ scan.component.PURL # <<>>) =>
        /\ scan.summary.err
        /\ \A i \in 1..Len(scan.summary.Components) :
              scan.summary.Components[i].Status # StatusUnknown


\* C17: a matched cycle whose EOL date is present but does not parse, and
\* whose eolBoolean is not true, gives status Unknown, whatever its
\* isMaintained flag; the result carries no EOL date and no day count.
C17_UnparsableDateIsUnknown ==
    (/\ EvalHasMatch
     /\ EvalMatched.eol_boolean # ValidInt64(1)
     /\ EvalMatched.eol.Valid
     /\ EvalMatched.eol.String # <<>>
     /\ ~ParseDate(EvalMatched.eol.String).ok) =>
        /\ call.result.Status = StatusUnknown
        /\ call.result.EOLDate = <<>>
        /\ call.result.DaysUntilEOL = NoDays


\* C18: cancellation prevents new work.  When the ctx is cancelled after the
\* upstream fetch has returned, FullSync starts no product, identifier or
\* cycle upsert from then on.  (That the earlier writes stay is not at
\* issue: FullSync deletes and rolls back nothing.)
C18_CancelStopsNewUpserts ==
    sync.cancelAt = "after" => sync.afterCancel = {}


\* C19: resolution is deterministic.  For the catalog content as it is and
\* the arguments of the recorded lookup, the product returned is the only
\* product that lookup can return: which of several rows matching within one
\* strategy is stored first makes no difference.
C19_LookupDeterministic ==
    (ret.op \in {"LookupByPURL", "LookupByCPE", "LookupByPURLPrefix",
                 "LookupByName"}
       /\ ret.fault = "none") =>
        \A other \in LookupCallResults(
                         [op |-> ret.op, arg |-> ret.arg, type |-> ret.type],
                         "none") :
            other.product = ret.result.product


\* C20 as stated: with AutoUpdateDB = false a scan invokes no FullSync,
\* whatever the state or age of the database.
C20_NoUpdateNeverSyncs ==
    (call.op = "ensureDatabase" /\ ~call.autoUpdateDB) =>
        ~call.result.fullSync

\* C20, amended: with AutoUpdateDB = false a scan invokes no FullSync when
\* the database file exists, whatever its recorded last full sync and its
\* age; it invokes FullSync, the initial sync, exactly when the database
\* file did not exist and could be created.
C20_NoUpdateSkipsExistingDb ==
    (call.op = "ensureDatabase" /\ ~call.autoUpdateDB) =>
        /\ call.result.fullSync <=> (~call.dbExists /\ ~call.openFails)
        /\ call.result.outcome # "panic"

\* A scan with AutoUpdateDB = false of an existing database whose last full
\* sync is older than the maximum age made no FullSync.
C20_Witness ==
    /\ call.op = "ensureDatabase"
    /\ ~call.autoUpdateDB
    /\ call.dbExists
    /\ ~call.openFails
    /\ ~call.statsErr
    /\ call.lastFullSync = ValidString(TimestampText(0))
    /\ call.today = MaxNow
    /\ call.dbMaxAge = 1
    /\ checkDBNeedsUpdate(Stats(call.lastFullSync), FALSE, call.today,
                          call.dbMaxAge).needsUpdate
    /\ call.result = [outcome |-> "return", fullSync |-> FALSE]


\* In a cycle row, an EOL (or support) date and flag are never both set.
DateXorFlag(c) ==
    /\ ~(c.eol.Valid /\ c.eol_boolean.Valid)
    /\ ~(c.support.Valid /\ c.support_boolean.Valid)

\* C21: in every catalog state no stored cycle has both an EOL date and an
\* EOL boolean set, nor both a support date and a support boolean.  After an
\* UpsertCycle that wrote the row: when the release carries eolFrom (with or
\* without isEol) the date is stored and the boolean is NULL, and when it
\* carries no eolFrom the stored date is NULL, whatever the row held before;
\* likewise for eoasFrom and isEoas.
C21_DateXorFlag ==
    /\ \A c \in cycles : DateXorFlag(c)
    /\ (ret.op = "UpsertCycle" /\ ret.changed) =>
          \A c \in cycles :
             (c.product_id = ret.productID /\ c.cycle = ret.release.Name) =>
                /\ ret.release.EolFrom # <<>> =>
                      (c.eol = ValidString(ret.release.EolFrom)
                         /\ c.eol_boolean = NullInt64)
                /\ ret.release.EolFrom = <<>> => c.eol = NullString
                /\ ret.release.EoasFrom # <<>> =>
                      (c.support = ValidString(ret.release.EoasFrom)
                         /\ c.support_boolean = NullInt64)
                /\ ret.release.EoasFrom = <<>> => c.support = NullString

\* A row that held an EOL date and a support date was replaced by a payload
\* with the two flags only: the dates are gone and the flags are stored.
C21_Witness ==
    /\ ret.op = "UpsertCycle"
    /\ ret.changed
    /\ \E b \in ret.before : b.eol.Valid /\ b.support.Valid
    /\ ret.release.EolFrom = <<>>
    /\ ret.release.IsEol = "true"
    /\ ret.release.EoasFrom = <<>>
    /\ ret.release.IsEoas = "true"
    /\ \E c \in cycles :
          /\ c.product_id = ret.productID
          /\ c.cycle = ret.release.Name
          /\ c.eol = NullString
          /\ c.eol_boolean = ValidInt64(1)
          /\ c.support = NullString
          /\ c.support_boolean = ValidInt64(1)


\* The run before returned a result with no error and no per-item error.
PrevRunClean ==
    /\ sync.prev.ran
    /\ sync.prev.returned
    /\ sync.prev.err = "none"
    /\ sync.prev.result.Errors = 0

\* The run in hand is the second of two successive runs against the same
\* upstream data and the same categories, the first of which was clean.
SecondOfTwo ==
    /\ PrevRunClean
    /\ sync.prev.upstream = sync.upstream
    /\ sync.prev.categories = sync.categories

\* C22: FullSync is idempotent on the catalog.  Of two successive runs
\* against the same upstream data and the same categories, the first
\* complete and without error, the second changes no category, product,
\* cycle or identifier row at any point of its course, storage faults or
\* not; while it meets no storage fault its CyclesProcessed stays 0, and when
\* it completes without error it reports the ProductsProcessed and
\* IdentifiersProcessed of the first run.
C22_FullSyncIdempotent ==
    SecondOfTwo =>
        /\ categories = sync.before.categories
        /\ products = sync.before.products
        /\ cycles = sync.before.cycles
        /\ identifiers = sync.before.identifiers
        /\ sync.faults = sync.prev.faults => sync.result.CyclesProcessed = 0
        /\ (sync.pc = "done" /\ sync.err = "none" /\ sync.result.Errors = 0) =>
              /\ sync.result.ProductsProcessed = sync.prev.result.ProductsProcessed
              /\ sync.result.IdentifiersProcessed
                    = sync.prev.result.IdentifiersProcessed

\* A second run over all default categories is complete: it processed two
\* products and an identifier as the first run did, and no cycle, while the
\* first run had processed cycles.
C22_Witness ==
    /\ SecondOfTwo
    /\ sync.pc = "done"
    /\ sync.err = "none"
    /\ sync.result.Errors = 0
    /\ sync.categories = DefaultCategories
    /\ sync.upstream = "first"
    /\ sync.result.ProductsProcessed = 2
    /\ sync.result.IdentifiersProcessed = 1
    /\ sync.faults = sync.prev.faults
    /\ sync.result.CyclesProcessed = 0
    /\ sync.prev.result.CyclesProcessed = 3
    /\ cycles # {}


\* No step removes a product (name and id), a cycle key or an identifier key.
KeysKept ==
    /\ \A p \in products : \E q \in products' : q.name = p.name /\ q.id = p.id
    /\ \A c \in cycles : \E d \in cycles' :
          d.product_id = c.product_id /\ d.cycle = c.cycle
    /\ identifiers \subseteq identifiers'

\* Every purl identifier stored when the run in hand was called, of a product
\* stored then, still selects that product in LookupByPURL.
StaleIdentifiersResolve ==
    \A i \in sync.before.identifiers, p \in sync.before.products :
        (i.identifier_type = "purl" /\ i.product_id = p.id) =>
            \E q \in LookupByPURLRows(i.identifier_value) :
                q.id = p.id /\ q.name = p.name

\* C23: the catalog is append-only across syncs.  No step of any sequence of
\* FullSync runs removes a product, a cycle key or an identifier key, also
\* when the key is absent from the upstream data of the run or its category
\* is not among the run's categories; and an identifier stored before a run
\* still resolves to its product during and after it.
C23_AppendOnly == []StaleIdentifiersResolve /\ [][KeysKept]_vars

\* After a clean run over the default categories, a run restricted to lang
\* against an upstream without nginx and without python 2.7 is complete:
\* nginx, its purl identifier and python's cycle 2.7 are still stored, and
\* the purl still selects nginx.
C23_Witness ==
    /\ PrevRunClean
    /\ sync.prev.upstream = "first"
    /\ sync.prev.categories = DefaultCategories
    /\ sync.upstream = "later"
    /\ sync.categories = <<S_lang>>
    /\ sync.pc = "done"
    /\ sync.err = "none"
    /\ sync.result.ProductsProcessed = 1
    /\ \E p \in products, q \in products :
          /\ p.name = S_nginx
          /\ q.name = S_python
          /\ [product_id |-> p.id, identifier_type |-> "purl",
              identifier_value |-> S_purlNginx] \in identifiers
          /\ p \in LookupByPURLRows(S_purlNginx)
          /\ \E c \in cycles : c.product_id = q.id /\ c.cycle = S_2_7


\* C24: referential integrity.  In every state reached through the write
\* operations of the store, every cycle row and every identifier row carries
\* the id of a stored product.
C24_ReferentialIntegrity ==
    /\ \A c \in cycles : \E p \in products : p.id = c.product_id
    /\ \A i \in identifiers : \E p \in products : p.id = i.product_id


\* Least element of a non-empty set of indices.
MinIndex(S) == CHOOSE k \in S : \A m \in S : k <= m

\* The recorded evaluation gave what the evaluation of cycle k of the list
\* alone gives, and names that cycle.
EvalSelected(k) ==
    /\ call.result.MatchedCycle = call.cycles[k].cycle
    /\ call.result =
          evaluateEOLStatus(ComponentResult(EvalComponent(call.version)),
                            <<call.cycles[k]>>, call.version, call.today,
                            call.forwardLookupDays)

\* C25: cycle selection is two-pass over the list in its given order.  The
\* evaluation selects the first cycle that matches by the exact/prefix rule;
\* only when no cycle of the list matches by that rule, the first cycle
\* whose major token equals the version's; and when no cycle matches by
\* either rule the status is unknown and no cycle is named.
C25_TwoPassSelection ==
    call.op = "evaluateEOLStatus" =>
        LET byPrefix == {i \in 1..Len(call.cycles) :
                            matchesVersion(call.version, call.cycles[i].cycle)}
            byMajor == {i \in 1..Len(call.cycles) :
                           matchesMajorVersion(call.version, call.cycles[i].cycle)}
        IN IF byPrefix # {} THEN EvalSelected(MinIndex(byPrefix))
           ELSE IF byMajor # {} THEN EvalSelected(MinIndex(byMajor))
           ELSE /\ call.result.Status = StatusUnknown
                /\ call.result.MatchedCycle = <<>>

\* Version 3.91 was evaluated against <<3.9, 3>>: 3.9 matches by major token
\* only, and the later 3, which matches by prefix, was selected.
C25_Witness ==
    /\ call.op = "evaluateEOLStatus"
    /\ call.version = S_3_91
    /\ Len(call.cycles) = 2
    /\ call.cycles[1].cycle = S_3_9
    /\ call.cycles[1].eol_boolean = ValidInt64(1)
    /\ call.cycles[2].cycle = S_3
    /\ matchesMajorVersion(call.version, call.cycles[1].cycle)
    /\ ~matchesVersion(call.version, call.cycles[1].cycle)
    /\ call.result.MatchedCycle = S_3
    /\ call.result.Status = StatusActive


\* C26: for a matched cycle with a parsable EOL date after today,
\* DaysUntilEOL is the number of days from the current date to the EOL date
\* (an EOL date 30 days after today's date gives 30); it is reported with
\* status EOL_SOON and with status Active, and it is absent when the status
\* is EOL.
C26_DaysUntilEOL ==
    EvalDated =>
        LET eolDay == EvalMatched.eol.String[2]
            todayDate == call.today \div TicksPerDay
        IN /\ EvalEolInstant > call.today =>
                 /\ call.result.Status \in {StatusEOLSoon, StatusActive}
                 /\ call.result.DaysUntilEOL = SomeDays(eolDay - todayDate)
           /\ call.result.Status = StatusEOL =>
                 call.result.DaysUntilEOL = NoDays


\* The run in hand has ended before the product loop: the fetch or a
\* category upsert failed.
RunAborted == sync.pc = "done" /\ sync.err \in {"fetch", "category"}

\* The run in hand has ended after the product loop.
RunReachedEnd == sync.pc = "done" /\ sync.err \notin {"fetch", "category"}

\* sync_metadata carries the stamp and the counts of the run in hand.
StampedByRun ==
    /\ meta.last_full_sync = ValidString(TimestampText(sync.startTime))
    /\ meta.products_count = Cardinality(products)
    /\ meta.cycles_count = Cardinality(cycles)
    /\ meta.identifiers_count = Cardinality(identifiers)

\* With the stamp of the run in hand the staleness check counts the age from
\* the run: a refresh is needed exactly when more than dbMaxAge has passed.
FreshUntilMaxAge ==
    \A dbMaxAge \in 0..MaxAge :
        LET needs == checkDBNeedsUpdate(Stats(meta.last_full_sync), FALSE, now,
                                        dbMaxAge)
        IN /\ needs.outcome = "return"
           /\ needs.needsUpdate <=> (now - sync.startTime > dbMaxAge)

-----------------------------------------------------------------------------
(* The staleness check when GetStats fails (SpecPure)                      *)

\* The recorded call ran checkDBNeedsUpdate, alone or from ensureDatabase,
\* while GetStats returned (nil, err).
StatsMissing ==
    \/ call.op = "checkDBNeedsUpdate" /\ call.statsErr
    \/ /\ call.op = "ensureDatabase"
       /\ ~call.openFails /\ call.dbExists /\ call.autoUpdateDB
       /\ call.statsErr

\* C29: the staleness check never crashes: when GetStats fails and returns no
\* stats, checkDBNeedsUpdate returns (the error, or that a refresh is
\* needed) and never reads a field of the missing stats value, so neither it
\* nor the ensureDatabase that called it ends in a panic.
C29_StalenessCheckNeverCrashes ==
    StatsMissing => call.result.outcome # "panic"


-----------------------------------------------------------------------------
(* The catalog a scan analyses against (SpecScans)                         *)

\* C28: over any sequence of scans on one database path, whenever a scan
\* reaches component analysis the catalog has been fully synced at least
\* once: lastFullSync is set.  This includes a scan with auto-update
\* disabled that follows a first scan whose initial sync failed after the
\* database file was created.
C28_AnalysisOnSyncedCatalog ==
    (call.op = "scan" /\ call.pc = "analysis") => meta.last_full_sync.Valid


-----------------------------------------------------------------------------
(* The hash gate under interleaved runs (SpecInterleave)                   *)

\* The stored hash of a row is the digest of a payload whose fields are
\* the ones stored in that row.
HashOfOwnRow(c) ==
    \E release \in InterleaveReleases :
        /\ c.data_hash = ValidString(computeHash(release))
        /\ c = CycleRow(c.product_id, release)

OneRowPerKey ==
    \A c1 \in cycles, c2 \in cycles :
        (c1.product_id = c2.product_id /\ c1.cycle = c2.cycle) => c1 = c2

\* A call answered changed=false without an error.
AnsweredUnchanged(r) ==
    Run(r).pc = "returned" /\ ~Run(r).changed /\ ~Run(r).err

\* C30: the hash gate is sound in every reachable state, also when two sync
\* runs interleave statement by statement: the hash stored with a cycle row
\* is the digest of the payload whose fields that row stores, no key
\* (productId, cycle) has more than one row, and UpsertCycle answers
\* changed=false only when the row it read already held the incoming
\* payload.
C30_HashGateSound ==
    /\ \A c \in cycles : HashOfOwnRow(c)
    /\ OneRowPerKey
    /\ \A r \in Runs :
          AnsweredUnchanged(r) =>
              Run(r).read = {CycleRow(Run(r).productID, Run(r).release)}

\* Both runs stood between SELECT and INSERT on one key with different
\* payloads, both INSERTs ran, and a later call was answered changed=false.
C30_Witness ==
    /\ call.op = "UpsertCycles"
    /\ \E r \in Runs, q \in Runs :
          /\ r # q
          /\ AnsweredUnchanged(r)
          /\ Run(q).raced /\ Run(q).changed
          /\ Run(q).productID = Run(r).productID
          /\ Run(q).release = Run(r).release
          /\ Cardinality(cycles) > 1

====
